---- MODULE Spec2Model ----
(***************************************************************************)
(* mprovision: locating, decoding, scanning and removing provisioning      *)
(* profiles.                                                               *)
(*                                                                         *)
(* A byte buffer is a sequence of symbols.  The bytes of the two markers   *)
(* are one-character strings, so that the sub-slice searches work on the   *)
(* real marker bytes.  The text between the markers is XML that the        *)
(* external plist crate reads; each XML element of it is one symbol (a     *)
(* longer string such as "<key>UUID</key>"), and the crate's reader is     *)
(* modelled as the map from these symbols to the plist events it yields.   *)
(***************************************************************************)
EXTENDS Integers, Sequences, FiniteSets, TLC

VARIABLES
    data,       \* the Vec<u8> a file is read into (read_to_end appends to it)
    reads,      \* how many read() calls have filled `data`
    pc,         \* position of the single-buffer operations
    found,      \* what each payload locator returned for `data`
    decoded,    \* what each decoder returned for `data`
    input,      \* the document the buffer under decoding was rendered from
    fs,         \* the directory: file name -> the file behind it
    dirOk,      \* whether fs::read_dir succeeds on the directory
    cmd,        \* the command being run, with its arguments and clock reading
    nworkers,   \* size of the thread pool
    file_paths, \* the Vec<PathBuf> handed to filter
    todo,       \* indices of file_paths no worker has started
    busy,       \* indices of file_paths a worker is processing
    results,    \* per index: what the map/filter_map/filter chain produced
    panicked,   \* a worker's closure panicked
    profiles,   \* the Vec<Profile> the command works on
    spc,        \* position of the command
    rm_i,       \* remove_profiles: index of the next profile
    errors_exist, \* remove_profiles: a removal has failed
    stdout,     \* what the command wrote to stdout
    stderr,     \* what the command wrote to stderr
    trash,      \* the names moved to the trash
    outcome,    \* what the command returned
    \* The work-stealing executor of src/src/lib.rs
    deque,      \* chase_lev deque: the jobs pushed and the index of its top
    threads,    \* per thread_id: the position of the spawned closure
    senders,    \* the thread_ids whose clone of tx is alive
    receiver,   \* the events sent on the channel and not yet received
    handles,    \* JobIter.handles: the thread_ids not yet joined
    executed,   \* the jobs on which execute() was called, in order
    yielded,    \* what JobIter::next returned as Some, in order
    jpc,        \* position of the consumer of the JobIter
    \* BuffersPool of src/src/context.rs
    queue,      \* MsQueue<Vec<u8>>
    held,       \* per worker: the Vec it owns, if any
    allocated   \* the number of Vec::new() so far

bufVars == <<data, reads, pc, found, decoded, input>>

scanVars ==
    <<fs, dirOk, cmd, nworkers, file_paths, todo, busy, results, panicked,
      profiles, spc, rm_i, errors_exist, stdout, stderr, trash, outcome>>

execVars == <<deque, threads, senders, receiver, handles, executed, yielded, jpc>>

poolVars == <<queue, held, allocated>>

legacyVars == <<execVars, poolVars>>

vars == <<bufVars, scanVars, legacyVars>>

(***************************************************************************)
(* Option<T> and the outcomes of a call.                                   *)
(***************************************************************************)
None == [kind |-> "None"]

Some(v) == [kind |-> "Some", v |-> v]

\* A Rust panic (slice index out of order, unwrap on Err, ...): the call
\* returns nothing and unwinds into its caller.
Panic == [kind |-> "Panic"]

IsSome(o) == o.kind = "Some"

Unset == [kind |-> "Unset"]

SetMin(S) == CHOOSE x \in S : \A y \in S : x <= y

SetMax(S) == CHOOSE x \in S : \A y \in S : x >= y

(***************************************************************************)
(* Payload locator.                                                        *)
(***************************************************************************)
PLIST_PREFIX == <<"<", "?", "x", "m", "l", " ", "v", "e", "r", "s", "i", "o", "n", "=">>

PLIST_SUFFIX == <<"<", "/", "p", "l", "i", "s", "t", ">">>

\* The 0-based offsets at which `needle` occurs in `haystack`.
Occurrences(haystack, needle) ==
    { i \in 0 .. (Len(haystack) - Len(needle)) :
        SubSeq(haystack, i + 1, i + Len(needle)) = needle }

\* memchr::memmem::find: offset of the first occurrence.
memmem_find(haystack, needle) ==
    IF Occurrences(haystack, needle) = {} THEN None
    ELSE Some(SetMin(Occurrences(haystack, needle)))

\* memchr::memmem::rfind: offset of the last occurrence.
memmem_rfind(haystack, needle) ==
    IF Occurrences(haystack, needle) = {} THEN None
    ELSE Some(SetMax(Occurrences(haystack, needle)))

\* memmem::TwoWaySearcher::search_in: offset of the first occurrence.
search_in(needle, haystack) ==
    IF Occurrences(haystack, needle) = {} THEN None
    ELSE Some(SetMin(Occurrences(haystack, needle)))

\* Option::map(|i| i + n)
MapAdd(o, n) == IF IsSome(o) THEN Some(o.v + n) ELSE None

\* &data[start_i..end_i]: the slice as the range it borrows, or the panic
\* of the index check ("slice index starts at .. but ends at ..", "range end
\* index .. out of range").
SliceIndex(d, start_i, end_i) ==
    IF start_i > end_i \/ end_i > Len(d) THEN Panic
    ELSE [kind |-> "Some", start |-> start_i, end |-> end_i]

\* The bytes a returned range borrows from the buffer.
SliceBytes(d, r) == SubSeq(d, r.start + 1, r.end)

\* The body shared by the locators: `if let (Some, Some) { if end_i <= len ..`
LocateWith(d, start_i, end_i) ==
    IF IsSome(start_i) /\ IsSome(end_i)
    THEN IF end_i.v <= Len(d) THEN SliceIndex(d, start_i.v, end_i.v) ELSE None
    ELSE None

\* find with the bounds check `end_i < data.len()` in place of `<=`.
find_StrictBound(d) ==
    LET start_i == memmem_find(d, PLIST_PREFIX)
        end_i == MapAdd(memmem_rfind(d, PLIST_SUFFIX), Len(PLIST_SUFFIX))
    IN  IF IsSome(start_i) /\ IsSome(end_i) /\ end_i.v < Len(d)
        THEN SliceIndex(d, start_i.v, end_i.v)
        ELSE None

\* crates/lib plist_extractor::find
find(d) ==
    LocateWith(d, memmem_find(d, PLIST_PREFIX),
               MapAdd(memmem_rfind(d, PLIST_SUFFIX), Len(PLIST_SUFFIX)))

\* src/src/plist_extractor.rs find (TwoWaySearcher for both markers)
searcher_find(d) ==
    LocateWith(d, search_in(PLIST_PREFIX, d),
               MapAdd(search_in(PLIST_SUFFIX, d), Len(PLIST_SUFFIX)))

\* src/src/context.rs Context::find_plist
XML_PREFIX == PLIST_PREFIX

XML_SUFFIX == PLIST_SUFFIX

Context_find_plist(d) ==
    LocateWith(d, search_in(XML_PREFIX, d),
               MapAdd(search_in(XML_SUFFIX, d), Len(XML_SUFFIX)))

\* src/src/lib.rs find(data, needle): the hand-written scan.
RECURSIVE scan_find(_, _, _)
scan_find(d, needle, i) ==
    IF i >= Len(d) THEN None
    ELSE IF i + Len(needle) > Len(d) THEN None
    ELSE IF SubSeq(d, i + 1, i + Len(needle)) = needle THEN Some(i)
    ELSE scan_find(d, needle, i + 1)

\* src/src/lib.rs find_plist (and mprovision/src/lib.rs): `end_i < data.len()`
find_plist(d) ==
    LET start_i == scan_find(d, PLIST_PREFIX, 0)
        end_i == MapAdd(scan_find(d, PLIST_SUFFIX, 0), Len(PLIST_SUFFIX))
    IN  IF IsSome(start_i) /\ IsSome(end_i)
        THEN IF end_i.v < Len(d) THEN SliceIndex(d, start_i.v, end_i.v) ELSE None
        ELSE None

\* Every locator of the repository applied to one buffer.
Locators == {"find", "searcher_find", "Context_find_plist", "find_plist"}

LocateAll(d) ==
    [ l \in Locators |->
        CASE l = "find" -> find(d)
          [] l = "searcher_find" -> searcher_find(d)
          [] l = "Context_find_plist" -> Context_find_plist(d)
          [] l = "find_plist" -> find_plist(d) ]

(***************************************************************************)
(* Profile decoder.                                                        *)
(*                                                                         *)
(* The XML between the markers, one symbol per element.                    *)
(***************************************************************************)
XmlHeader == "'1.0' encoding='UTF-8'?><plist version='1.0'>"

DictOpen == "<dict>"

DictClose == "</dict>"

KeyEl(k) == "<key>" \o k \o "</key>"

StringEl(t) == "<string>" \o t \o "</string>"

\* A date element; its text stands for the point in time `t` seconds after
\* the epoch.
DateEl(t) == "<date>" \o ToString(t) \o "</date>"

\* The strings and times that occur in documents.
Texts ==
    { "UUID", "Name", "Entitlements", "application-identifier",
      "CreationDate", "ExpirationDate", "Other",
      "u1", "u2", "n1", "Dev", "T.app", "T.*", "T",
      "../u1", "/u1", "a/u1" }

MaxTime == 3

Times == 0 .. MaxTime

\* The events of the plist crate's XML reader.
StartDictionary == [ev |-> "StartDictionary"]

EndDictionary == [ev |-> "EndDictionary"]

StringValue(t) == [ev |-> "StringValue", v |-> t]

DateValue(t) == [ev |-> "DateValue", v |-> t]

ErrEvent == [ev |-> "Err"]

\* The event one element yields; <key> and <string> both yield a string
\* event.  Anything that is not an element is a parse error.
LexElement(sym) ==
    IF sym = DictOpen THEN StartDictionary
    ELSE IF sym = DictClose THEN EndDictionary
    ELSE IF \E t \in Texts : sym = KeyEl(t)
         THEN StringValue(CHOOSE t \in Texts : sym = KeyEl(t))
    ELSE IF \E t \in Texts : sym = StringEl(t)
         THEN StringValue(CHOOSE t \in Texts : sym = StringEl(t))
    ELSE IF \E t \in Times : sym = DateEl(t)
         THEN DateValue(CHOOSE t \in Times : sym = DateEl(t))
    ELSE ErrEvent

\* The reader stops at its first error.
RECURSIVE LexElements(_)
LexElements(xs) ==
    IF xs = <<>> THEN <<>>
    ELSE IF LexElement(Head(xs)) = ErrEvent THEN <<ErrEvent>>
    ELSE <<LexElement(Head(xs))>> \o LexElements(Tail(xs))

\* The events the reader yields for a located payload: the declaration and
\* the <plist> root must open it and </plist> must close it.
XmlEvents(xml) ==
    IF /\ Len(xml) >= Len(PLIST_PREFIX) + 1 + Len(PLIST_SUFFIX)
       /\ SubSeq(xml, 1, Len(PLIST_PREFIX)) = PLIST_PREFIX
       /\ xml[Len(PLIST_PREFIX) + 1] = XmlHeader
       /\ SubSeq(xml, Len(xml) - Len(PLIST_SUFFIX) + 1, Len(xml)) = PLIST_SUFFIX
    THEN LexElements(SubSeq(xml, Len(PLIST_PREFIX) + 2, Len(xml) - Len(PLIST_SUFFIX)))
    ELSE <<ErrEvent>>

(***************************************************************************)
(* serde: #[derive(Deserialize)] for InfoDef and Entitlements.             *)
(***************************************************************************)
\* Field name -> type, from the serde(rename) attributes.
InfoDefFields ==
    [ k \in {"UUID", "Name", "Entitlements", "CreationDate", "ExpirationDate"} |->
        CASE k = "UUID" -> "String"
          [] k = "Name" -> "String"
          [] k = "Entitlements" -> "Entitlements"
          [] k = "CreationDate" -> "Date"
          [] k = "ExpirationDate" -> "Date" ]

EntitlementsFields == [ k \in {"application-identifier"} |-> "String" ]

DeErr == [kind |-> "Err"]

\* Skipping the value of an unknown key (serde::de::IgnoredAny): the index
\* after the value that starts at i, or 0 when the events end or fail.
RECURSIVE SkipDict(_, _, _)
SkipDict(ev, i, depth) ==
    IF i > Len(ev) \/ ev[i] = ErrEvent THEN 0
    ELSE IF ev[i] = StartDictionary THEN SkipDict(ev, i + 1, depth + 1)
    ELSE IF ev[i] = EndDictionary
         THEN IF depth = 1 THEN i + 1 ELSE SkipDict(ev, i + 1, depth - 1)
    ELSE SkipDict(ev, i + 1, depth)

SkipValue(ev, i) ==
    IF i > Len(ev) \/ ev[i] = ErrEvent \/ ev[i] = EndDictionary THEN 0
    ELSE IF ev[i] = StartDictionary THEN SkipDict(ev, i + 1, 1)
    ELSE i + 1

\* The derived visit_map of a struct with fields `schema`, from event i (the
\* first event after the struct's StartDictionary): the fields read and the
\* index after its EndDictionary, or an error (a missing field, a duplicate
\* field, a value of the wrong type, or a reader error).
RECURSIVE DeStruct(_, _, _, _)
DeStruct(ev, i, acc, schema) ==
    IF i > Len(ev) THEN DeErr
    ELSE IF ev[i] = EndDictionary
         THEN IF DOMAIN acc = DOMAIN schema
              THEN [kind |-> "Ok", fields |-> acc, next |-> i + 1]
              ELSE DeErr
    ELSE IF ev[i].ev # "StringValue" \/ i + 1 > Len(ev) THEN DeErr
    ELSE IF ev[i].v \notin DOMAIN schema
         THEN IF SkipValue(ev, i + 1) = 0 THEN DeErr
              ELSE DeStruct(ev, SkipValue(ev, i + 1), acc, schema)
    ELSE IF ev[i].v \in DOMAIN acc THEN DeErr
    ELSE IF schema[ev[i].v] = "String"
         THEN IF ev[i + 1].ev = "StringValue"
              THEN DeStruct(ev, i + 2, acc @@ (ev[i].v :> ev[i + 1].v), schema)
              ELSE DeErr
    ELSE IF schema[ev[i].v] = "Date"
         THEN IF ev[i + 1].ev = "DateValue"
              THEN DeStruct(ev, i + 2, acc @@ (ev[i].v :> ev[i + 1].v), schema)
              ELSE DeErr
    ELSE IF ev[i + 1] # StartDictionary THEN DeErr
    ELSE LET sub == DeStruct(ev, i + 2, <<>>, EntitlementsFields)
         IN  IF sub.kind = "Err" THEN DeErr
             ELSE DeStruct(ev, sub.next, acc @@ (ev[i].v :> sub.fields), schema)

\* plist::from_reader_xml::<InfoDef>
from_reader_xml(xml) ==
    LET ev == XmlEvents(xml)
    IN  IF Len(ev) = 0 \/ ev[1] # StartDictionary THEN DeErr
        ELSE DeStruct(ev, 2, <<>>, InfoDefFields)

\* An Info record.
Info(uuid, name, app_identifier, creation_date, expiration_date) ==
    [ uuid |-> uuid, name |-> name, app_identifier |-> app_identifier,
      creation_date |-> creation_date, expiration_date |-> expiration_date ]

\* crates/lib Info::from_xml_data
Info_from_xml_data(d) ==
    LET xml == find(d)
    IN  IF xml.kind # "Some" THEN xml
        ELSE LET def == from_reader_xml(SliceBytes(d, xml))
             IN  IF def.kind = "Err" THEN None
                 ELSE Some(Info(def.fields["UUID"], def.fields["Name"],
                                def.fields["Entitlements"]["application-identifier"],
                                def.fields["CreationDate"],
                                def.fields["ExpirationDate"]))

\* ProfileInfo::empty / Profile::empty
UNIX_EPOCH == 0

empty == Info("", "", "", UNIX_EPOCH, UNIX_EPOCH)

\* The event loop of the older decoders: a string event equal to a field's
\* key makes the loop take the next event, and store it when it has the
\* field's type.
LegacyKeys ==
    [ k \in {"UUID", "Name", "application-identifier", "CreationDate",
             "ExpirationDate"} |->
        CASE k = "UUID" -> <<"uuid", "StringValue">>
          [] k = "Name" -> <<"name", "StringValue">>
          [] k = "application-identifier" -> <<"app_identifier", "StringValue">>
          [] k = "CreationDate" -> <<"creation_date", "DateValue">>
          [] k = "ExpirationDate" -> <<"expiration_date", "DateValue">> ]

RECURSIVE EventLoop(_, _, _)
EventLoop(ev, i, profile) ==
    IF i > Len(ev) THEN profile
    ELSE IF ev[i].ev = "StringValue" /\ ev[i].v \in DOMAIN LegacyKeys
         THEN IF i + 1 > Len(ev) THEN profile
              ELSE IF ev[i + 1].ev = LegacyKeys[ev[i].v][2]
                   THEN EventLoop(ev, i + 2,
                            [profile EXCEPT ![LegacyKeys[ev[i].v][1]] = ev[i + 1].v])
                   ELSE EventLoop(ev, i + 2, profile)
    ELSE EventLoop(ev, i + 1, profile)

\* src/src/profile.rs ProfileInfo::from_xml_data
ProfileInfo_from_xml_data(d) ==
    LET xml == searcher_find(d)
    IN  IF xml.kind # "Some" THEN xml
        ELSE Some(EventLoop(XmlEvents(SliceBytes(d, xml)), 1, empty))

\* mprovision/src/lib.rs and src/src/lib.rs profile_from_data
profile_from_data(d) ==
    LET xml == find_plist(d)
    IN  IF xml.kind # "Some" THEN xml
        ELSE Some(EventLoop(XmlEvents(SliceBytes(d, xml)), 1, empty))

Decoders == {"Info_from_xml_data", "ProfileInfo_from_xml_data", "profile_from_data"}

DecodeAll(d) ==
    [ f \in Decoders |->
        CASE f = "Info_from_xml_data" -> Info_from_xml_data(d)
          [] f = "ProfileInfo_from_xml_data" -> ProfileInfo_from_xml_data(d)
          [] f = "profile_from_data" -> profile_from_data(d) ]

(***************************************************************************)
(* Reading a buffer and locating its payload.                              *)
(***************************************************************************)
MaxChunks == 5

\* What one read() call may append to the buffer: a whole marker, a garbage
\* byte, and the two halves of an end marker split across reads.
Chunks ==
    { PLIST_PREFIX, PLIST_SUFFIX, <<"a">>, <<"<">>,
      <<"/", "p", "l", "i", "s", "t", ">">> }

\* No command is running.
ScanIdle ==
    /\ fs = <<>> /\ dirOk = TRUE /\ cmd = Unset /\ nworkers = 1
    /\ file_paths = <<>> /\ todo = {} /\ busy = {} /\ results = <<>>
    /\ panicked = FALSE /\ profiles = <<>> /\ spc = "idle" /\ rm_i = 1
    /\ errors_exist = FALSE /\ stdout = <<>> /\ stderr = <<>> /\ trash = {}
    /\ outcome = Unset

\* No executor is running and no pool is in use.
ExecIdle ==
    /\ deque = Unset /\ threads = <<>> /\ senders = {} /\ receiver = <<>>
    /\ handles = <<>> /\ executed = <<>> /\ yielded = <<>>
    /\ jpc = [at |-> "idle"]

PoolIdle == queue = <<>> /\ held = <<>> /\ allocated = 0

LegacyIdle == ExecIdle /\ PoolIdle

\* No buffer is being read.
BufIdle ==
    /\ data = <<>> /\ reads = 0 /\ pc = "idle" /\ found = Unset
    /\ decoded = Unset /\ input = Unset

InitLocate ==
    /\ ScanIdle
    /\ LegacyIdle
    /\ data = <<>>
    /\ reads = 0
    /\ pc = "reading"
    /\ found = Unset
    /\ decoded = Unset
    /\ input = Unset

\* Read::read_to_end: one more chunk of the file arrives in the buffer.
ReadChunk ==
    /\ pc = "reading"
    /\ reads < MaxChunks
    /\ \E c \in Chunks : data' = data \o c
    /\ reads' = reads + 1
    /\ UNCHANGED <<pc, found, decoded, input, scanVars, legacyVars>>

\* End of file: the locators run on the buffer.
Locate ==
    /\ pc = "reading"
    /\ found' = LocateAll(data)
    /\ pc' = "located"
    /\ UNCHANGED <<data, reads, decoded, input, scanVars, legacyVars>>

NextLocate == ReadChunk \/ Locate

SpecLocate == InitLocate /\ [][NextLocate]_vars

(***************************************************************************)
(* Claims about the payload locator.                                       *)
(***************************************************************************)
StartOffsets == Occurrences(data, PLIST_PREFIX)

EndOffsets == Occurrences(data, PLIST_SUFFIX)

MarkerAbsent == StartOffsets = {} \/ EndOffsets = {}

\* The end offset the locator computes: index of the end marker plus its length.
ComputedEnd == SetMax(EndOffsets) + Len(PLIST_SUFFIX)

\* C1: plist_extractor::find is total: for every buffer it returns some slice
\* or none, and never panics (both the current and the TwoWaySearcher version).
C1_FindIsTotal ==
    pc = "located" =>
        \A l \in {"find", "searcher_find"} : found[l].kind \in {"Some", "None"}

\* C2: find(b) is none iff a marker is absent from b or the computed end
\* offset exceeds len(b); in every other case it returns a range.
C2_NoneIffAbsentOrTruncated ==
    pc = "located" =>
        LET noRange == MarkerAbsent \/ ComputedEnd > Len(data)
        IN  /\ (found["find"].kind = "None") <=> noRange
            /\ ~noRange => found["find"].kind = "Some"

\* C3: a returned range starts at the first occurrence of the start marker
\* and ends just after the last occurrence of the end marker, for find of both
\* plist_extractor versions and for Context::find_plist.
C3_FirstStartLastEnd ==
    pc = "located" =>
        \A l \in {"find", "searcher_find", "Context_find_plist"} :
            found[l].kind = "Some" =>
                /\ found[l].start = SetMin(StartOffsets)
                /\ found[l].end = SetMax(EndOffsets) + Len(PLIST_SUFFIX)

\* The buffer is garbage ++ payload ++ garbage: each marker occurs exactly
\* once, and the start marker ends before the end marker begins.
RoundTripCase ==
    /\ Cardinality(StartOffsets) = 1
    /\ Cardinality(EndOffsets) = 1
    /\ SetMin(StartOffsets) + Len(PLIST_PREFIX) <= SetMin(EndOffsets)

\* The bytes of a buffer from its first start marker to the end of its last
\* end marker.
Payload0(d) ==
    SubSeq(d, SetMin(Occurrences(d, PLIST_PREFIX)) + 1,
           SetMax(Occurrences(d, PLIST_SUFFIX)) + Len(PLIST_SUFFIX))

\* The payload of such a buffer, markers included.
Payload == Payload0(data)

\* C4: round trip: for garbage ++ payload ++ garbage with the markers nowhere
\* else, the locator returns exactly the bytes of payload, whatever the
\* garbage (empty or not) before and after it.
C4_RoundTrip ==
    (pc = "located" /\ RoundTripCase) =>
        \A l \in {"find", "searcher_find", "Context_find_plist"} :
            /\ found[l].kind = "Some"
            /\ SliceBytes(data, found[l]) = Payload
            /\ SubSeq(Payload, 1, Len(PLIST_PREFIX)) = PLIST_PREFIX
            /\ SubSeq(Payload, Len(Payload) - Len(PLIST_SUFFIX) + 1, Len(Payload))
                   = PLIST_SUFFIX

\* C4 witness: garbage before the payload, bytes between the markers, and no
\* garbage after it; find returned the payload.
C4_Witness ==
    /\ pc = "located"
    /\ RoundTripCase
    /\ SetMin(StartOffsets) > 0
    /\ SetMin(StartOffsets) + Len(PLIST_PREFIX) < SetMin(EndOffsets)
    /\ ComputedEnd = Len(data)
    /\ found["find"].kind = "Some"
    /\ SliceBytes(data, found["find"]) = Payload

(***************************************************************************)
(* Strings of the profile record.  A String is kept as a TLA+ string; the  *)
(* operations that look inside one (find, to_lowercase, contains, slicing) *)
(* work on its characters.                                                 *)
(***************************************************************************)
\* The string of a sequence of characters.
RECURSIVE Str(_)
Str(cs) == IF cs = <<>> THEN "" ELSE cs[1] \o Str(Tail(cs))

\* The app identifiers and ids made of a letter and the dot, by their
\* characters.
MaxIdLen == 3

IdSeqs == UNION { [1 .. k -> {"a", "."}] : k \in 0 .. MaxIdLen }

\* The field values and search texts made of letters in both cases, by
\* their characters.
MaxTextLen == 2

TextSeqs == UNION { [1 .. k -> {"a", "A", "b"}] : k \in 0 .. MaxTextLen }

\* The characters of the strings that occur as field values, ids and
\* search texts.
Chars(t) ==
    CASE t = "" -> <<>>
      [] t = "u1" -> <<"u", "1">>
      [] t = "u2" -> <<"u", "2">>
      [] t = "u9" -> <<"u", "9">>
      [] t = "n1" -> <<"n", "1">>
      [] t = "Dev" -> <<"D", "e", "v">>
      [] t = "dev" -> <<"d", "e", "v">>
      [] t = "T.app" -> <<"T", ".", "a", "p", "p">>
      [] t = "T.*" -> <<"T", ".", "*">>
      [] t = "T" -> <<"T">>
      [] t = "app" -> <<"a", "p", "p">>
      [] t = "APP" -> <<"A", "P", "P">>
      [] t = "../u1" -> <<".", ".", "/", "u", "1">>
      [] t = "/u1" -> <<"/", "u", "1">>
      [] t = "a/u1" -> <<"a", "/", "u", "1">>
      [] OTHER -> CHOOSE cs \in IdSeqs \cup TextSeqs : Str(cs) = t

\* char::to_lowercase on the characters in use.
LowerChar(c) ==
    CASE c = "A" -> "a"
      [] c = "D" -> "d"
      [] c = "P" -> "p"
      [] c = "T" -> "t"
      [] c = "U" -> "u"
      [] OTHER -> c

\* str::to_lowercase
to_lowercase(cs) == [ i \in 1 .. Len(cs) |-> LowerChar(cs[i]) ]

\* str::contains(&str)
str_contains(cs, pat) == Occurrences(cs, pat) # {}

\* contains without the two to_lowercase calls.
contains_CaseSensitive(info, string) ==
    \E item \in {info.name, info.app_identifier, info.uuid} :
        str_contains(Chars(item), Chars(string))

\* Info::contains
contains(info, string) ==
    LET s == to_lowercase(Chars(string))
    IN  \E item \in {info.name, info.app_identifier, info.uuid} :
            str_contains(to_lowercase(Chars(item)), s)

\* bundle_id with rfind in place of find: the characters after the last '.'.
bundle_id_LastDot(info) ==
    LET cs == Chars(info.app_identifier)
        dots == { i \in 1 .. Len(cs) : cs[i] = "." }
    IN  IF dots = {} THEN None
        ELSE Some(SubSeq(cs, SetMax(dots) + 1, Len(cs)))

\* has_ids that compares the ids with the whole app identifier.
has_ids_AppIdentifier(info, ids) ==
    \E n \in 1 .. Len(ids) :
        \/ info.uuid = ids[n]
        \/ info.app_identifier = ids[n]

\* Info::bundle_id: the characters after the first '.', if there is one.
bundle_id(info) ==
    LET cs == Chars(info.app_identifier)
        dots == { i \in 1 .. Len(cs) : cs[i] = "." }
    IN  IF dots = {} THEN None
        ELSE Some(SubSeq(cs, SetMin(dots) + 1, Len(cs)))

\* Info::has_ids
has_ids(info, ids) ==
    \E n \in 1 .. Len(ids) :
        \/ info.uuid = ids[n]
        \/ bundle_id(info) = Some(Chars(ids[n]))

(***************************************************************************)
(* Documents: the inputs of the decoder.                                   *)
(***************************************************************************)
\* How a required key appears in a document: not at all, with a value of
\* another type, or as it should.
KeyChoices == {"absent", "wrong", "ok"}

\* Entitlements may also be a dictionary without application-identifier.
EntChoices == KeyChoices \cup {"noapp"}

\* plist: garbage, declaration, <plist><dict>..</dict></plist>, garbage.
\* notdict: the root value is a string.  badxml: a stray byte in the dict.
\* nomarkers: garbage only.  reversed: the end marker, then the start marker.
Shapes == {"plist", "notdict", "badxml", "nomarkers", "reversed"}

Garbage == {<<>>, <<"a">>}

Doc(shape, pre, post, uuid, name, ent, cdate, edate, vals) ==
    [ shape |-> shape, pre |-> pre, post |-> post, uuid |-> uuid, name |-> name,
      ent |-> ent, cdate |-> cdate, edate |-> edate, vals |-> vals ]

Member(k, choice, okEl, wrongEl) ==
    IF choice = "absent" THEN <<>>
    ELSE IF choice = "ok" THEN <<KeyEl(k), okEl>>
    ELSE <<KeyEl(k), wrongEl>>

EntitlementsMember(choice, app_identifier) ==
    IF choice = "absent" THEN <<>>
    ELSE IF choice = "wrong" THEN <<KeyEl("Entitlements"), StringEl(app_identifier)>>
    ELSE IF choice = "noapp" THEN <<KeyEl("Entitlements"), DictOpen, DictClose>>
    ELSE <<KeyEl("Entitlements"), DictOpen,
           KeyEl("application-identifier"), StringEl(app_identifier), DictClose>>

DictBody(doc) ==
    Member("UUID", doc.uuid, StringEl(doc.vals.uuid), DateEl(doc.vals.creation_date))
    \o Member("Name", doc.name, StringEl(doc.vals.name), DateEl(doc.vals.creation_date))
    \o EntitlementsMember(doc.ent, doc.vals.app_identifier)
    \o Member("CreationDate", doc.cdate, DateEl(doc.vals.creation_date),
              StringEl(doc.vals.name))
    \o Member("ExpirationDate", doc.edate, DateEl(doc.vals.expiration_date),
              StringEl(doc.vals.name))

\* The bytes of the file that holds the document.
Render(doc) ==
    CASE doc.shape = "plist" ->
            doc.pre \o PLIST_PREFIX \o <<XmlHeader, DictOpen>> \o DictBody(doc)
            \o <<DictClose>> \o PLIST_SUFFIX \o doc.post
      [] doc.shape = "notdict" ->
            doc.pre \o PLIST_PREFIX \o <<XmlHeader, StringEl(doc.vals.uuid)>>
            \o PLIST_SUFFIX \o doc.post
      [] doc.shape = "badxml" ->
            doc.pre \o PLIST_PREFIX \o <<XmlHeader, DictOpen>> \o DictBody(doc)
            \o <<"a", DictClose>> \o PLIST_SUFFIX \o doc.post
      [] doc.shape = "nomarkers" -> doc.pre \o <<"a">> \o doc.post
      [] doc.shape = "reversed" ->
            doc.pre \o PLIST_SUFFIX \o <<"a">> \o PLIST_PREFIX \o doc.post

\* The document holds all five fields, each of its type, where the decoder
\* looks for them.
Complete(doc) ==
    /\ doc.shape = "plist"
    /\ doc.uuid = "ok" /\ doc.name = "ok" /\ doc.ent = "ok"
    /\ doc.cdate = "ok" /\ doc.edate = "ok"

SampleInfo == Info("u1", "n1", "T.app", 1, 2)

\* The documents given to the decoders: every combination of key choices
\* for a plist, and one document of every other shape per garbage.
DecodeInputs ==
    { Doc("plist", pre, post, c[1], c[2], e, c[3], c[4], SampleInfo) :
        pre \in Garbage, post \in Garbage,
        c \in [1 .. 4 -> KeyChoices], e \in EntChoices }
    \cup
    { Doc(sh, pre, post, "ok", "ok", "ok", "ok", "ok", SampleInfo) :
        sh \in Shapes \ {"plist"}, pre \in Garbage, post \in Garbage }

InitDecode ==
    /\ ScanIdle
    /\ LegacyIdle
    /\ input \in DecodeInputs
    /\ data = Render(input)
    /\ reads = 1
    /\ pc = "reading"
    /\ found = Unset
    /\ decoded = Unset

\* The decoders run on the buffer.
Decode ==
    /\ pc = "reading"
    /\ decoded' = DecodeAll(data)
    /\ found' = LocateAll(data)
    /\ pc' = "decoded"
    /\ UNCHANGED <<data, reads, input, scanVars, legacyVars>>

NextDecode == Decode

SpecDecode == InitDecode /\ [][NextDecode]_vars

\* C5: decoding is all-or-nothing: each decoder returns none or a record
\* whose five fields all come from the document; it returns none when a
\* required key is absent or of the wrong type, and never a record with a
\* defaulted field.
C5_AllOrNothing ==
    pc = "decoded" =>
        \A f \in Decoders :
            /\ decoded[f].kind \in {"Some", "None"}
            /\ decoded[f].kind = "Some" =>
                   (Complete(input) /\ decoded[f].v = input.vals)
            /\ ~Complete(input) => decoded[f].kind = "None"

(***************************************************************************)
(* The directory of profiles and the files in it.                          *)
(***************************************************************************)
EXT_MOBILEPROVISION == "mobileprovision"

\* A file name is its dot-separated parts.
\* Path::extension: the part after the last dot, if there is a dot.
\* A name whose only dot is its first character has no extension.
extension(name) ==
    IF Len(name) >= 2 /\ ~(Len(name) = 2 /\ name[1] = "")
    THEN Some(name[Len(name)])
    ELSE None

\* A path: a directory and the file name joined to it.
ScanDir == "Provisioning Profiles"

PathIn(dir, name) == [dir |-> dir, name |-> name]

\* is_mobileprovision with the extension compared without regard to case.
is_mobileprovision_IgnoreCase(file_path) ==
    extension(file_path.name) \in {Some(EXT_MOBILEPROVISION), Some("MOBILEPROVISION")}

is_mobileprovision(file_path) == extension(file_path.name) = Some(EXT_MOBILEPROVISION)

\* The names in the directory.
DirNames == { <<"1", "mobileprovision">>, <<"2", "mobileprovision">>, <<"3", "txt">> }

\* What a file holds: a profile with uuid u1, one with uuid u2, a profile
\* with uuid u1 that lacks its Name, the two markers in reverse order; or
\* the file cannot be opened.
FileKinds == {"u1", "u2", "partial", "reversed", "unreadable"}

\* Profiles whose UUID string has a path separator in it: `../u1`, `/u1`
\* and `a/u1`.
PathKinds == {"dotdot", "absolute", "subdir"}

FileDoc(kind) ==
    CASE kind = "u1" ->
            Doc("plist", <<"a">>, <<"a">>, "ok", "ok", "ok", "ok", "ok",
                Info("u1", "Dev", "T.app", 1, 2))
      [] kind = "u2" ->
            Doc("plist", <<>>, <<>>, "ok", "ok", "ok", "ok", "ok",
                Info("u2", "n1", "T.*", 0, 3))
      [] kind = "partial" ->
            Doc("plist", <<"a">>, <<"a">>, "ok", "absent", "ok", "ok", "ok",
                Info("u1", "n1", "T.app", 1, 2))
      [] kind = "reversed" ->
            Doc("reversed", <<>>, <<>>, "ok", "ok", "ok", "ok", "ok",
                Info("u1", "n1", "T.app", 1, 2))
      [] kind = "dotdot" ->
            Doc("plist", <<"a">>, <<"a">>, "ok", "ok", "ok", "ok", "ok",
                Info("../u1", "n1", "T.app", 1, 2))
      [] kind = "absolute" ->
            Doc("plist", <<"a">>, <<"a">>, "ok", "ok", "ok", "ok", "ok",
                Info("/u1", "n1", "T.app", 1, 2))
      [] kind = "subdir" ->
            Doc("plist", <<"a">>, <<"a">>, "ok", "ok", "ok", "ok", "ok",
                Info("a/u1", "n1", "T.app", 1, 2))

File(kind, deletable) == [kind |-> kind, exists |-> TRUE, deletable |-> deletable]

\* Result<T, Error>
Ok(v) == [kind |-> "Ok", v |-> v]

ErrIo == [kind |-> "Err", err |-> "Io"]

ErrOwn(msg) == [kind |-> "Err", err |-> "Own", msg |-> msg]

\* File::open(path)?.read_to_end(&mut buf)?
read_file(files, file_path) ==
    IF /\ file_path.dir = ScanDir
       /\ file_path.name \in DOMAIN files
       /\ files[file_path.name].exists
       /\ files[file_path.name].kind # "unreadable"
    THEN Ok(Render(FileDoc(files[file_path.name].kind)))
    ELSE ErrIo

\* The buffers a file of the directory can hold, and Info::from_xml_data
\* on each of them (a pure function of the buffer, evaluated once).
FileBuffers == { Render(FileDoc(k)) : k \in (FileKinds \cup PathKinds) \ {"unreadable"} }

InfoOf == [ d \in FileBuffers |-> Info_from_xml_data(d) ]

\* Profile::from_file
Profile_from_file(files, file_path) ==
    LET buf == read_file(files, file_path)
    IN  IF buf.kind = "Err" THEN buf
        ELSE LET info == InfoOf[buf.v]
             IN  IF info.kind = "Panic" THEN Panic
                 ELSE IF info.kind = "None" THEN ErrOwn("Couldn't parse file.")
                 ELSE Ok([path |-> file_path, info |-> info.v])

\* file_paths without the filter on the extension: every entry's path.
file_paths_of_AnyExtension(files, dir) ==
    { PathIn(dir, n) : n \in { m \in DOMAIN files : files[m].exists } }

\* fs::read_dir(dir)?, the two filters and the map of file_paths: the
\* paths of the entries with the profile extension, as a set (read_dir
\* yields them in an order of its own).
file_paths_of(files, dir) ==
    { PathIn(dir, n) : n \in { m \in DOMAIN files :
        files[m].exists /\ is_mobileprovision(PathIn(dir, m)) } }

\* Every order in which a set can be listed.
Orders(S) ==
    { q \in [1 .. Cardinality(S) -> S] :
        \A i, j \in 1 .. Cardinality(S) : q[i] = q[j] => i = j }

(***************************************************************************)
(* Commands.                                                               *)
(***************************************************************************)
SecsPerDay == 24 * 60 * 60

\* list: the cutoff date, `now + days`, when --expire-in-days is given.
list_date(c) ==
    IF IsSome(c.expire_in_days) THEN Some(c.now + c.expire_in_days.v * SecsPerDay)
    ELSE None

\* The predicate each command hands to filter_dir.
Predicate(c, profile) ==
    CASE c.op = "List" ->
            IF IsSome(list_date(c)) /\ IsSome(c.text)
            THEN /\ profile.info.expiration_date <= list_date(c).v
                 /\ contains(profile.info, c.text.v)
            ELSE IF IsSome(list_date(c))
            THEN profile.info.expiration_date <= list_date(c).v
            ELSE IF IsSome(c.text) THEN contains(profile.info, c.text.v)
            ELSE TRUE
      [] c.op = "ShowUuid" -> profile.info.uuid = c.uuid
      [] c.op = "Remove" -> has_ids(profile.info, c.ids)
      [] c.op = "Clean" -> profile.info.expiration_date <= c.now

\* The chain with `.map(Result::unwrap)` in place of filter_map(Result::ok):
\* a file that cannot be read or decoded unwinds the scan.
filter_item_Unwrap(files, c, file_path) ==
    LET r == Profile_from_file(files, file_path)
    IN  IF r.kind # "Ok" THEN Panic
        ELSE IF Predicate(c, r.v) THEN Some(r.v)
        ELSE None

\* filter: what the chain map(from_file).filter_map(Result::ok).filter(f)
\* yields for one path: the profile, nothing, or the closure's panic.
filter_item(files, c, file_path) ==
    LET r == Profile_from_file(files, file_path)
    IN  IF r.kind = "Panic" THEN Panic
        ELSE IF r.kind = "Err" THEN None
        ELSE IF Predicate(c, r.v) THEN Some(r.v)
        ELSE None

\* collect(): the items kept, in the order of the input.
RECURSIVE Collected(_, _)
Collected(res, i) ==
    IF i > Len(res) THEN <<>>
    ELSE IF res[i].kind = "Some" THEN <<res[i].v>> \o Collected(res, i + 1)
    ELSE Collected(res, i + 1)

\* Vec::sort_by(creation_date): a stable insertion of p into a sorted list.
RECURSIVE InsertByCreation(_, _)
InsertByCreation(sorted, p) ==
    IF sorted = <<>> THEN <<p>>
    ELSE IF sorted[Len(sorted)].info.creation_date <= p.info.creation_date
         THEN Append(sorted, p)
    ELSE Append(InsertByCreation(SubSeq(sorted, 1, Len(sorted) - 1), p),
                sorted[Len(sorted)])

\* The profiles left in the order of the scan.
sort_by_creation_date_Unsorted(ps) == ps

RECURSIVE sort_by_creation_date(_)
sort_by_creation_date(ps) ==
    IF ps = <<>> THEN <<>>
    ELSE InsertByCreation(sort_by_creation_date(SubSeq(ps, 1, Len(ps) - 1)),
                          ps[Len(ps)])

\* A byte that is not part of any UTF-8 text.
InvalidUtf8Byte == "0xFF"

\* show after File::open and read_to_end: find, then String::from_utf8.
show_buf(buf, file_path) ==
    IF buf.kind = "Err" THEN buf
    ELSE LET xml == find(buf.v)
         IN  IF xml.kind = "Panic" THEN Panic
             ELSE IF xml.kind = "None" THEN ErrOwn(<<"Couldn't parse", file_path>>)
             ELSE IF \E i \in xml.start + 1 .. xml.end : buf.v[i] = InvalidUtf8Byte
                  THEN ErrOwn("invalid utf-8 sequence")
             ELSE Ok(SliceBytes(buf.v, xml))

\* mprovision::show
show(files, file_path) == show_buf(read_file(files, file_path), file_path)

\* The error of `show <uuid>` when no profile matches.
NotFound(uuid) ==
    [kind |-> "Err", err |-> "Message",
     msg |-> <<"Failed to find provisioning profile for", uuid>>]

\* fs::remove_file / trash::delete: the call fails when the file is not
\* there or may not be deleted.
CanDelete(files, file_path) ==
    /\ file_path.dir = ScanDir
    /\ file_path.name \in DOMAIN files
    /\ files[file_path.name].exists
    /\ files[file_path.name].deletable

Unlinked(files, file_path) == [files EXCEPT ![file_path.name].exists = FALSE]

\* remove(file_path, permanently): its result, and the directory and the
\* trash after it.
remove(files, trashed, file_path, permanently) ==
    IF ~CanDelete(files, file_path)
    THEN [res |-> IF permanently THEN ErrIo ELSE [kind |-> "Err", err |-> "Trash"],
          fs |-> files, trash |-> trashed]
    ELSE [res |-> Ok(<<>>),
          fs |-> Unlinked(files, file_path),
          trash |-> IF permanently THEN trashed ELSE trashed \cup {file_path.name}]

(***************************************************************************)
(* Running a command on a directory.                                       *)
(***************************************************************************)
MaxWorkers == 2

ListCmds ==
    { [op |-> "List", text |-> t, expire_in_days |-> d, now |-> n] :
        t \in {None, Some("dev")}, d \in {None, Some(0), Some(1)}, n \in Times }

ShowUuidCmds == { [op |-> "ShowUuid", uuid |-> u] : u \in {"u1", "u9"} }

RemoveCmds ==
    { [op |-> "Remove", ids |-> ids, permanently |-> b] :
        ids \in {<<"u1">>, <<"app", "u2">>}, b \in BOOLEAN }

CleanCmds ==
    { [op |-> "Clean", permanently |-> b, now |-> n] : b \in BOOLEAN, n \in Times }

Cmds == ListCmds \cup ShowUuidCmds \cup RemoveCmds \cup CleanCmds

Removes(c) == c.op \in {"Remove", "Clean", "remove_profiles"}

\* The directories a command may find.  The file without the profile
\* extension holds a profile too.
Filesystems ==
    { f \in [DirNames -> { File(k, b) : k \in FileKinds, b \in BOOLEAN }] :
        \A n \in DirNames :
            extension(n) # Some(EXT_MOBILEPROVISION) =>
                (f[n].kind \in {"u1", "partial"} /\ f[n].deletable) }

ScanStart ==
    /\ file_paths = <<>> /\ todo = {} /\ busy = {} /\ results = <<>>
    /\ panicked = FALSE /\ profiles = <<>> /\ rm_i = 1
    /\ errors_exist = FALSE /\ stdout = <<>> /\ stderr = <<>> /\ trash = {}
    /\ outcome = Unset

\* The inputs that cannot matter are fixed: the clock when the command does
\* not read it, whether a file can be deleted when the command deletes
\* nothing, and the files and the pool when the directory cannot be read.
InitScan ==
    /\ BufIdle
    /\ LegacyIdle
    /\ cmd \in Cmds
    /\ (cmd.op = "List" /\ cmd.expire_in_days = None) => cmd.now = 0
    /\ dirOk \in BOOLEAN
    /\ fs \in Filesystems
    /\ ~Removes(cmd) => \A n \in DirNames : fs[n].deletable
    /\ ~dirOk => \A n \in DirNames : fs[n] = File("u1", TRUE)
    /\ nworkers \in 1 .. MaxWorkers
    /\ ~dirOk => nworkers = 1
    /\ spc = "start"
    /\ ScanStart

\* filter_dir: file_paths(dir)?.collect()
ReadDir ==
    /\ spc = "start"
    /\ IF ~dirOk
       THEN /\ outcome' = ErrIo
            /\ spc' = "done"
            /\ UNCHANGED <<file_paths, todo, results>>
       ELSE /\ \E q \in Orders(file_paths_of(fs, ScanDir)) :
                /\ file_paths' = q
                /\ todo' = 1 .. Len(q)
                /\ results' = [i \in 1 .. Len(q) |-> Unset]
            /\ spc' = "scanning"
            /\ UNCHANGED outcome
    /\ UNCHANGED <<fs, dirOk, cmd, nworkers, busy, panicked, profiles, rm_i,
                   errors_exist, stdout, stderr, trash, bufVars, legacyVars>>

\* par_iter: a free worker of the pool takes a path.
Take ==
    /\ spc = "scanning"
    /\ Cardinality(busy) < nworkers
    /\ \E i \in todo :
        /\ todo' = todo \ {i}
        /\ busy' = busy \cup {i}
    /\ UNCHANGED <<fs, dirOk, cmd, nworkers, file_paths, results, panicked,
                   profiles, spc, rm_i, errors_exist, stdout, stderr, trash,
                   outcome, bufVars, legacyVars>>

\* The worker runs the chain on its path.
Finish ==
    /\ spc = "scanning"
    /\ \E i \in busy :
        LET r == filter_item(fs, cmd, file_paths[i])
        IN  /\ busy' = busy \ {i}
            /\ results' = [results EXCEPT ![i] = r]
            /\ panicked' = (panicked \/ r.kind = "Panic")
    /\ UNCHANGED <<fs, dirOk, cmd, nworkers, file_paths, todo, profiles, spc,
                   rm_i, errors_exist, stdout, stderr, trash, outcome, bufVars, legacyVars>>

\* collect() returns (or the panic of a worker resumes in the caller), and
\* the command goes on with the profiles.
Collect ==
    /\ spc = "scanning"
    /\ todo = {} /\ busy = {}
    /\ IF panicked
       THEN /\ outcome' = Panic
            /\ spc' = "done"
            /\ UNCHANGED <<profiles, stdout>>
       ELSE LET ps == Collected(results, 1)
            IN  CASE cmd.op = "List" ->
                        /\ profiles' = sort_by_creation_date(ps)
                        /\ stdout' = sort_by_creation_date(ps)
                        /\ outcome' = Ok(<<>>)
                        /\ spc' = "done"
                  [] cmd.op = "ShowUuid" ->
                        /\ profiles' = ps
                        /\ IF ps = <<>>
                           THEN /\ outcome' = NotFound(cmd.uuid)
                                /\ UNCHANGED stdout
                           ELSE LET xml == show(fs, ps[1].path)
                                IN  IF xml.kind = "Ok"
                                    THEN /\ stdout' = <<xml.v>>
                                         /\ outcome' = Ok(<<>>)
                                    ELSE /\ outcome' = xml
                                         /\ UNCHANGED stdout
                        /\ spc' = "done"
                  [] Removes(cmd) ->
                        /\ profiles' = ps
                        /\ spc' = "removing"
                        /\ UNCHANGED <<stdout, outcome>>
    /\ UNCHANGED <<fs, dirOk, cmd, nworkers, file_paths, todo, busy, results,
                   panicked, rm_i, errors_exist, stderr, trash, bufVars, legacyVars>>

\* One turn of the loop that leaves the loop at the first failed removal.
RemoveStep_StopAtFailure ==
    /\ spc = "removing"
    /\ rm_i <= Len(profiles)
    /\ LET r == remove(fs, trash, profiles[rm_i].path, cmd.permanently)
       IN  /\ fs' = r.fs
           /\ trash' = r.trash
           /\ IF r.res.kind = "Ok"
              THEN /\ stdout' = Append(stdout, profiles[rm_i])
                   /\ rm_i' = rm_i + 1
                   /\ UNCHANGED <<stderr, errors_exist>>
              ELSE /\ stderr' = Append(stderr, r.res)
                   /\ errors_exist' = TRUE
                   /\ rm_i' = Len(profiles) + 1
                   /\ UNCHANGED stdout
    /\ UNCHANGED <<dirOk, cmd, nworkers, file_paths, todo, busy, results,
                   panicked, profiles, spc, outcome, bufVars, legacyVars>>

\* remove_profiles: one turn of its loop.
RemoveStep ==
    /\ spc = "removing"
    /\ rm_i <= Len(profiles)
    /\ LET r == remove(fs, trash, profiles[rm_i].path, cmd.permanently)
       IN  /\ fs' = r.fs
           /\ trash' = r.trash
           /\ IF r.res.kind = "Ok"
              THEN /\ stdout' = Append(stdout, profiles[rm_i])
                   /\ UNCHANGED <<stderr, errors_exist>>
              ELSE /\ stderr' = Append(stderr, r.res)
                   /\ errors_exist' = TRUE
                   /\ UNCHANGED stdout
    /\ rm_i' = rm_i + 1
    /\ UNCHANGED <<dirOk, cmd, nworkers, file_paths, todo, busy, results,
                   panicked, profiles, spc, outcome, bufVars, legacyVars>>

\* remove_profiles: after the loop.
RemoveReturn ==
    /\ spc = "removing"
    /\ rm_i > Len(profiles)
    /\ outcome' = IF errors_exist THEN [kind |-> "Err", err |-> "Message", msg |-> ""]
                  ELSE Ok(<<>>)
    /\ spc' = "done"
    /\ UNCHANGED <<fs, dirOk, cmd, nworkers, file_paths, todo, busy, results,
                   panicked, profiles, rm_i, errors_exist, stdout, stderr,
                   trash, bufVars, legacyVars>>

NextScan == ReadDir \/ Take \/ Finish \/ Collect \/ RemoveStep \/ RemoveReturn

SpecScan == InitScan /\ [][NextScan]_vars

(***************************************************************************)
(* Claims about the scan.                                                  *)
(***************************************************************************)
\* The names with the profile extension.
Candidates == { n \in DOMAIN fs : is_mobileprovision(PathIn(ScanDir, n)) }

Unreadable(n) == fs[n].kind = "unreadable"

\* The file can be read and its document holds the five fields.
Decodable(n) == ~Unreadable(n) /\ Complete(FileDoc(fs[n].kind))

\* The profile the file stands for, from its document.
TrueProfile(n) == [path |-> PathIn(ScanDir, n), info |-> FileDoc(fs[n].kind).vals]

\* The profiles the scan is to keep.
Expected ==
    { TrueProfile(n) : n \in { m \in Candidates :
        Decodable(m) /\ Predicate(cmd, TrueProfile(m)) } }

Range(q) == { q[i] : i \in DOMAIN q }

\* filter has returned to the command.
FilterReturned == dirOk /\ spc \in {"removing", "done"}

\* C6: filter returns exactly one Profile for each path whose file can be
\* read, decodes and satisfies the predicate, and nothing else, whatever the
\* order of execution and the number of workers.
C6_ExactlyTheMatching ==
    FilterReturned =>
        /\ outcome # Panic
        /\ Range(profiles) = Expected
        /\ Len(profiles) = Cardinality(Expected)

\* C7: the engine never fails: a file that fails to decode is dropped, it
\* neither aborts the scan nor changes what the scan does with another
\* file, and the only error of filter_dir is the failed directory read.
C7_EngineNeverFails ==
    /\ ~panicked
    /\ outcome # Panic
    /\ \A i \in DOMAIN results :
          results[i].kind # "Unset" =>
              results[i] = IF /\ Decodable(file_paths[i].name)
                              /\ Predicate(cmd, TrueProfile(file_paths[i].name))
                           THEN Some(TrueProfile(file_paths[i].name))
                           ELSE None
    /\ FilterReturned => Expected \subseteq Range(profiles)
    /\ outcome = ErrIo => ~dirOk

\* The scan met a file that cannot be opened.
ScannedUnreadable == \E i \in DOMAIN file_paths : Unreadable(file_paths[i].name)

\* C8 as stated: an I/O error is always surfaced to the caller; a file that
\* cannot be opened or read during a bulk scan yields an error to the
\* caller instead of being dropped.
C8_IoErrorSurfaced ==
    (spc = "done" /\ dirOk /\ ~panicked /\ ScannedUnreadable) =>
        (outcome.kind = "Err" /\ outcome.err = "Io")

\* C8 as amended: the error of the directory read is returned by
\* filter_dir, the error of opening a file is returned by Profile::from_file,
\* and a failed deletion is reported on stderr and makes remove_profiles
\* fail; but filter discards the error of a file it cannot open: the file is
\* dropped like one that does not match, and no I/O error reaches the caller
\* of the scan.
C8_IoErrorsExceptInScan ==
    /\ (spc = "done" /\ ~dirOk) => outcome = ErrIo
    /\ \A n \in Candidates :
          Unreadable(n) => Profile_from_file(fs, PathIn(ScanDir, n)) = ErrIo
    /\ \A i \in DOMAIN results :
          (Unreadable(file_paths[i].name) /\ results[i].kind # "Unset") =>
              results[i] = None
    /\ \A i \in DOMAIN profiles : ~Unreadable(profiles[i].path.name)
    /\ dirOk => outcome # ErrIo
    /\ (spc = "done" /\ Removes(cmd) /\ dirOk /\ ~panicked) =>
          /\ (outcome.kind = "Err") <=>
                 (\E i \in DOMAIN profiles : ~fs[profiles[i].path.name].deletable)
          /\ Len(stderr) =
                 Cardinality({ i \in DOMAIN profiles :
                                 ~fs[profiles[i].path.name].deletable })

\* C8 witness: a scan that dropped a file it could not open, kept the
\* profile of another file, and returned without an error.
C8_Witness ==
    /\ spc = "done" /\ dirOk /\ cmd.op = "List"
    /\ outcome = Ok(<<>>)
    /\ Len(profiles) = 1
    /\ \E i \in DOMAIN results :
          Unreadable(file_paths[i].name) /\ results[i] = None

\* Some file of the directory decodes to the uuid asked for.
HasUuid(uuid) ==
    \E n \in Candidates : Decodable(n) /\ FileDoc(fs[n].kind).vals.uuid = uuid

\* C10: `show <uuid>`: when a decodable file of the directory has the uuid,
\* the command shows a profile with that uuid and does not crash; when none
\* has, it fails with the not-found error that carries the uuid.
C10_FindById ==
    (spc = "done" /\ dirOk /\ cmd.op = "ShowUuid") =>
        IF HasUuid(cmd.uuid)
        THEN /\ outcome = Ok(<<>>)
             /\ Len(profiles) >= 1
             /\ profiles[1].info.uuid = cmd.uuid
             /\ stdout = <<Payload0(Render(FileDoc(fs[profiles[1].path.name].kind)))>>
        ELSE outcome = NotFound(cmd.uuid)

(***************************************************************************)
(* remove_profiles on profiles of any path.                                *)
(***************************************************************************)
\* The lists of profiles handed to remove_profiles: one or two paths of the
\* directory, with or without the profile extension.
RemoveLists ==
    { q \in UNION { [1 .. k -> DirNames] : k \in 1 .. 2 } :
        \A i, j \in DOMAIN q : i # j => q[i] # q[j] }

InitRemove ==
    /\ BufIdle
    /\ LegacyIdle
    /\ cmd \in { [op |-> "remove_profiles", permanently |-> b] : b \in BOOLEAN }
    /\ dirOk = TRUE
    /\ nworkers = 1
    /\ fs \in [DirNames -> { File("u1", b) : b \in BOOLEAN }]
    /\ \E q \in RemoveLists :
          profiles = [i \in DOMAIN q |->
                        [path |-> PathIn(ScanDir, q[i]), info |-> SampleInfo]]
    /\ file_paths = <<>> /\ todo = {} /\ busy = {} /\ results = <<>>
    /\ panicked = FALSE /\ rm_i = 1
    /\ errors_exist = FALSE /\ stdout = <<>> /\ stderr = <<>> /\ trash = {}
    /\ outcome = Unset
    /\ spc = "removing"

NextRemove == RemoveStep \/ RemoveReturn

SpecRemove == InitRemove /\ [][NextRemove]_vars

\* C9: removal of a path whose extension is not `mobileprovision` fails
\* with a validation error and deletes nothing: the file stays in its
\* directory and out of the trash, the error of every such path is on
\* stderr, and remove_profiles fails.
C9_RemovalChecksExtension ==
    /\ \A n \in DOMAIN fs :
          ~is_mobileprovision(PathIn(ScanDir, n)) =>
              (fs[n].exists /\ n \notin trash)
    /\ \A i \in DOMAIN profiles :
          (~is_mobileprovision(profiles[i].path) /\ i < rm_i) =>
              /\ errors_exist
              /\ profiles[i] \notin Range(stdout)
    /\ (spc = "done" /\ \E i \in DOMAIN profiles :
                            ~is_mobileprovision(profiles[i].path)) =>
          outcome.kind = "Err"

(***************************************************************************)
(* Calls of Info::bundle_id and Info::has_ids.                             *)
(***************************************************************************)
MaxIds == 2

\* The ids of a call: the uuid of the profile, and the shorter strings.
IdPool == {"u1"} \cup { Str(cs) : cs \in { q \in IdSeqs : Len(q) + 1 < MaxIdLen } }

IdLists == UNION { [1 .. k -> IdPool] : k \in 0 .. MaxIds }

IdInfos ==
    { Info(u, "n1", Str(cs), 1, 2) : u \in {"u1", "a"}, cs \in IdSeqs }

InitIds ==
    /\ ScanIdle
    /\ LegacyIdle
    /\ data = <<>> /\ reads = 0 /\ found = Unset /\ decoded = Unset
    /\ pc = "call"
    /\ input \in { [op |-> "bundle_id", info |-> i, ids |-> <<>>] : i \in IdInfos }
               \cup { [op |-> "has_ids", info |-> i, ids |-> ids] :
                        i \in IdInfos, ids \in IdLists }

CallBundleId ==
    /\ pc = "call" /\ input.op = "bundle_id"
    /\ decoded' = bundle_id(input.info)
    /\ pc' = "returned"
    /\ UNCHANGED <<data, reads, found, input, scanVars, legacyVars>>

CallHasIds ==
    /\ pc = "call" /\ input.op = "has_ids"
    /\ decoded' = has_ids(input.info, input.ids)
    /\ pc' = "returned"
    /\ UNCHANGED <<data, reads, found, input, scanVars, legacyVars>>

NextIds == CallBundleId \/ CallHasIds

SpecIds == InitIds /\ [][NextIds]_vars

\* The characters of the app identifier of the call, and the places of its
\* dots.
AppChars == CHOOSE cs \in IdSeqs : Str(cs) = input.info.app_identifier

Dots == { i \in 1 .. Len(AppChars) : AppChars[i] = "." }

\* The string after the first dot of the app identifier.
AfterFirstDot ==
    Str([ i \in 1 .. Len(AppChars) - SetMin(Dots) |-> AppChars[SetMin(Dots) + i] ])

HasIdsReturned == pc = "returned" /\ input.op = "has_ids"

\* C11: has_ids(ids) is true exactly when some element of ids equals the
\* uuid or equals bundle_id(); with no `.` in the app identifier only the
\* uuid can match, and an empty list never matches.
C11_HasIds ==
    HasIdsReturned =>
        /\ decoded = (\E n \in DOMAIN input.ids :
                        \/ input.ids[n] = input.info.uuid
                        \/ Dots # {} /\ input.ids[n] = AfterFirstDot)
        /\ (Dots = {} /\ decoded) =>
               \E n \in DOMAIN input.ids : input.ids[n] = input.info.uuid
        /\ input.ids = <<>> => ~decoded

\* C11 witness: a call that matches through the bundle id only, with the
\* uuid not among the ids.
C11_Witness ==
    /\ HasIdsReturned /\ decoded
    /\ Dots # {}
    /\ \A n \in DOMAIN input.ids : input.ids[n] # input.info.uuid
    /\ Len(input.ids) = 2

BundleIdReturned == pc = "returned" /\ input.op = "bundle_id"

\* C12: bundle_id() depends on app_identifier only: with a `.` in it the
\* result is the string after the first `.`, which may be empty and may
\* hold more dots; without a `.` the result is none.
C12_BundleId ==
    BundleIdReturned =>
        IF Dots = {} THEN decoded = None
        ELSE /\ decoded.kind = "Some"
             /\ Str(decoded.v) = AfterFirstDot
             /\ Len(decoded.v) = Len(AppChars) - SetMin(Dots)

\* C12 witness: an app identifier with two dots, whose bundle id holds the
\* second.
C12_Witness ==
    /\ BundleIdReturned
    /\ Cardinality(Dots) = 2
    /\ decoded.kind = "Some"
    /\ \E i \in DOMAIN decoded.v : decoded.v[i] = "."

(***************************************************************************)
(* The directory enumerator, entry by entry.                               *)
(***************************************************************************)
MaxEntries == 3

\* The names an entry of the directory can have.  The entry `sub` is a
\* directory that holds a file with the profile extension.
EnumNames ==
    { <<"1", "mobileprovision">>, <<"2", "mobileprovision">>,
      <<"3", "MOBILEPROVISION">>, <<"4", "mobileprovision", "bak">>,
      <<"5", "txt", "mobileprovision">>, <<"", "mobileprovision">>,
      <<"mobileprovision">>, <<"sub">> }

Nested(name) == IF name = <<"sub">> THEN {<<"x", "mobileprovision">>} ELSE {}

\* What the directory path names.
DirStates == {"ok", "missing", "unreadable", "notdir"}

\* The items of the ReadDir iterator: an entry, or the error of reading
\* one.  No name occurs twice.
EntryLists ==
    { q \in UNION { [1 .. k -> { Ok(n) : n \in EnumNames } \cup {ErrIo}] :
                      k \in 0 .. MaxEntries } :
        \A i, j \in DOMAIN q : (i # j /\ q[i].kind = "Ok") => q[i] # q[j] }

\* fs::read_dir(dir)
read_dir(dir_state, entries) == IF dir_state = "ok" THEN Ok(entries) ELSE ErrIo

\* Every entry kept, and the error of an entry ending the enumeration.
file_paths_item_FailOnErr(dir, entry) ==
    IF entry.kind # "Ok" THEN entry
    ELSE Some(PathIn(dir, entry.v))

\* file_paths: what filter, filter_map(Result::ok) and map make of one item
\* of the iterator.
file_paths_item(dir, entry) ==
    IF entry.kind = "Ok" /\ is_mobileprovision(PathIn(dir, entry.v))
    THEN Some(PathIn(dir, entry.v))
    ELSE None

InitEnum ==
    /\ BufIdle
    /\ LegacyIdle
    /\ fs = <<>> /\ dirOk = TRUE /\ nworkers = 1
    /\ cmd \in { [op |-> "file_paths", dir |-> d, entries |-> q] :
                   d \in DirStates, q \in EntryLists }
    /\ cmd.dir # "ok" => cmd.entries = <<>>
    /\ file_paths = <<>> /\ todo = {} /\ busy = {} /\ results = <<>>
    /\ panicked = FALSE /\ profiles = <<>> /\ rm_i = 1
    /\ errors_exist = FALSE /\ stdout = <<>> /\ stderr = <<>> /\ trash = {}
    /\ outcome = Unset
    /\ spc = "call"
\* let filtered = fs::read_dir(dir)?...; Ok(filtered)
OpenDir ==
    /\ spc = "call"
    /\ LET r == read_dir(cmd.dir, cmd.entries)
       IN  IF r.kind = "Err"
           THEN /\ outcome' = r
                /\ spc' = "done"
                /\ UNCHANGED todo
           ELSE /\ outcome' = Ok(<<>>)
                /\ todo' = DOMAIN r.v
                /\ spc' = "iterating"
    /\ UNCHANGED <<fs, dirOk, cmd, nworkers, file_paths, busy, results,
                   panicked, profiles, rm_i, errors_exist, stdout, stderr,
                   trash, bufVars, legacyVars>>

\* The caller takes the next item of the returned iterator.
NextEntry ==
    /\ spc = "iterating"
    /\ todo # {}
    /\ LET i == SetMin(todo)
           r == file_paths_item(ScanDir, cmd.entries[i])
       IN  /\ todo' = todo \ {i}
           /\ IF r.kind = "Some"
              THEN /\ file_paths' = Append(file_paths, r.v)
                   /\ UNCHANGED <<outcome, spc>>
              ELSE IF r.kind = "None"
              THEN UNCHANGED <<file_paths, outcome, spc>>
              ELSE /\ outcome' = r
                   /\ spc' = "done"
                   /\ UNCHANGED file_paths
    /\ UNCHANGED <<fs, dirOk, cmd, nworkers, busy, results, panicked, profiles,
                   rm_i, errors_exist, stdout, stderr, trash, bufVars, legacyVars>>

\* The iterator is exhausted.
Exhausted ==
    /\ spc = "iterating"
    /\ todo = {}
    /\ spc' = "done"
    /\ UNCHANGED <<fs, dirOk, cmd, nworkers, file_paths, todo, busy, results,
                   panicked, profiles, rm_i, errors_exist, stdout, stderr,
                   trash, outcome, bufVars, legacyVars>>

NextEnum == OpenDir \/ NextEntry \/ Exhausted

SpecEnum == InitEnum /\ [][NextEnum]_vars

\* The name ends in the extension `mobileprovision`, in this case, after a
\* stem.
HasProfileExtension(n) ==
    /\ Len(n) >= 2
    /\ n[Len(n)] = "mobileprovision"
    /\ \E i \in 1 .. Len(n) - 1 : n[i] # ""

\* The entries read so far that carry the extension, in the order of the
\* directory.
RECURSIVE ProfileEntries(_, _)
ProfileEntries(q, upto) ==
    IF upto = 0 THEN <<>>
    ELSE LET rest == ProfileEntries(q, upto - 1)
         IN  IF q[upto].kind = "Ok" /\ HasProfileExtension(q[upto].v)
             THEN Append(rest, q[upto].v)
             ELSE rest

EntriesRead == Len(cmd.entries) - Cardinality(todo)

\* C13: file_paths yields exactly the entries directly inside dir whose
\* last extension is `mobileprovision` in this very case, one path for
\* each, and no entry of a subdirectory: an empty directory yields no
\* path, a directory with k such entries yields k paths.
C13_ExactlyTheProfileEntries ==
    spc \in {"iterating", "done"} /\ cmd.dir = "ok" =>
        /\ Len(file_paths) = Len(ProfileEntries(cmd.entries, EntriesRead))
        /\ \A i \in DOMAIN file_paths :
              /\ file_paths[i].dir = ScanDir
              /\ file_paths[i].name = ProfileEntries(cmd.entries, EntriesRead)[i]
              /\ \A n \in EnumNames : file_paths[i].name \notin Nested(n)
        /\ (spc = "done" /\ cmd.entries = <<>>) => file_paths = <<>>

\* C13 witness: a directory of three entries, one with the extension, one
\* with it in upper case and a subdirectory, read to its end with one path
\* yielded.
C13_Witness ==
    /\ spc = "done" /\ cmd.dir = "ok"
    /\ Len(file_paths) = 1
    /\ \E i, j \in DOMAIN cmd.entries :
          /\ cmd.entries[i] = Ok(<<"3", "MOBILEPROVISION">>)
          /\ cmd.entries[j] = Ok(<<"sub">>)

\* C14: file_paths fails with an I/O error, and yields no path, when dir
\* does not exist, cannot be read or is not a directory; an entry that
\* fails to be read is skipped and the enumeration does not fail.
C14_DirErrorOnly ==
    /\ (spc = "done" /\ cmd.dir # "ok") => (outcome = ErrIo /\ file_paths = <<>>)
    /\ (spc # "call" /\ cmd.dir = "ok") => outcome = Ok(<<>>)
    /\ (spc = "done" /\ cmd.dir = "ok") =>
          /\ todo = {}
          /\ \A i \in DOMAIN cmd.entries :
                (cmd.entries[i].kind = "Ok" /\ HasProfileExtension(cmd.entries[i].v)) =>
                    \E j \in DOMAIN file_paths : file_paths[j].name = cmd.entries[i].v

\* C14 witness: an enumeration that met the error of an entry and yielded
\* the entry after it.
C14_Witness ==
    /\ spc = "done" /\ cmd.dir = "ok" /\ outcome = Ok(<<>>)
    /\ Len(cmd.entries) = 2
    /\ cmd.entries[1] = ErrIo
    /\ Len(file_paths) = 1

(***************************************************************************)
(* extract: the profiles of an archive, written to a directory.            *)
(***************************************************************************)
MaxArchive == 3

ArchiveDir == "archive"

\* The entries of an archive: what enclosed_name makes of the name (none
\* for a name that leaves the archive's root) and what the entry holds.
\* An entry that is not a candidate holds a profile or a document without
\* its Name.
ArchiveEntries ==
    { [name |-> Some(<<"1", "mobileprovision">>), kind |-> k] :
        k \in {"u1", "u2", "partial", "reversed"} }
    \cup { [name |-> Some(<<"3", "txt">>), kind |-> k] : k \in {"u1", "partial"} }
    \cup { [name |-> None, kind |-> "u1"] }

Archives == UNION { [1 .. k -> ArchiveEntries] : k \in 0 .. MaxArchive }

\* file.read_to_end(&mut buf)
EntryBytes(e) == Render(FileDoc(e.kind))

Skip == [kind |-> "Skip"]

Write(path, bytes) == [kind |-> "Write", path |-> path, bytes |-> bytes]

\* The destination directory, and the directories that exist once extract
\* has made it: the root, its parent and the destination itself.
Destination == <<"home", "out">>

ExistingDirs == { SubSeq(Destination, 1, k) : k \in 0 .. Len(Destination) }

\* The pieces of a string between its separators.
RECURSIVE Split(_, _, _)
Split(cs, sep, cur) ==
    IF cs = <<>> THEN <<cur>>
    ELSE IF Head(cs) = sep THEN <<cur>> \o Split(Tail(cs), sep, <<>>)
    ELSE Split(Tail(cs), sep, Append(cur, Head(cs)))

\* Path::components of the file name format!("{}.mobileprovision", uuid),
\* without the extension: empty components are dropped.
Components(uuid) ==
    LET segs == Split(Chars(uuid), "/", <<>>)
    IN  SelectSeq([ i \in DOMAIN segs |-> Str(segs[i]) ], LAMBDA c : c # "")

\* destination.join(file_name): an absolute file_name replaces the
\* destination.
join(destination, uuid) ==
    [base |-> IF Chars(uuid) # <<>> /\ Head(Chars(uuid)) = "/" THEN <<>> ELSE destination,
     rest |-> Components(uuid)]

\* The directory that the components before the last lead to, when each
\* step exists: `..` is the parent, any other name a subdirectory.
RECURSIVE Walk(_, _, _)
Walk(dir, comps, i) ==
    IF i >= Len(comps) THEN Some(dir)
    ELSE LET next == IF comps[i] = ".."
                     THEN SubSeq(dir, 1, IF dir = <<>> THEN 0 ELSE Len(dir) - 1)
                     ELSE IF comps[i] = "." THEN dir
                     ELSE Append(dir, comps[i])
         IN  IF next \in ExistingDirs THEN Walk(next, comps, i + 1) ELSE None

\* fs::File::create(outpath): the path of the file made, or an I/O error
\* when the directory it names is not there.
File_create(outpath) ==
    LET dir == Walk(outpath.base, outpath.rest, 1)
    IN  IF outpath.rest = <<>> \/ dir = None THEN ErrIo
        ELSE Ok(PathIn(dir.v, <<outpath.rest[Len(outpath.rest)], EXT_MOBILEPROVISION>>))

FailedToDecode(path) ==
    [kind |-> "Err", err |-> "Message", msg |-> <<"Failed to decode", path>>]

\* The body of the loop with the located payload written in place of the
\* whole entry.
extract_entry_WritePayload(e) ==
    IF e.name = None THEN Skip
    ELSE IF ~is_mobileprovision(PathIn(ArchiveDir, e.name.v)) THEN Skip
    ELSE LET buf == EntryBytes(e)
             info == InfoOf[buf]
         IN  IF info.kind = "Panic" THEN Panic
             ELSE IF info.kind = "None" THEN FailedToDecode(e.name.v)
             ELSE LET created == File_create(join(Destination, info.v.uuid))
                  IN  IF created.kind = "Err" THEN created
                      ELSE Write(created.v, SliceBytes(buf, find(buf)))

\* extract: the body of the loop for one entry.
extract_entry(e) ==
    IF e.name = None THEN Skip
    ELSE IF ~is_mobileprovision(PathIn(ArchiveDir, e.name.v)) THEN Skip
    ELSE LET buf == EntryBytes(e)
             info == InfoOf[buf]
         IN  IF info.kind = "Panic" THEN Panic
             ELSE IF info.kind = "None" THEN FailedToDecode(e.name.v)
             ELSE LET created == File_create(join(Destination, info.v.uuid))
                  IN  IF created.kind = "Err" THEN created
                      ELSE Write(created.v, buf)

NotADirectory == [kind |-> "Err", err |-> "Message", msg |-> "Destination is not a directory"]

\* The destination is a directory, is missing or is a file; the source is a
\* zip archive or is not.  The destination directory starts empty.
InitExtractOf(archives) ==
    /\ BufIdle
    /\ LegacyIdle
    /\ cmd \in { [op |-> "extract", source |-> src, dest |-> d, archive |-> a] :
                   src \in {"zip", "bad"}, d \in {"dir", "missing", "file"},
                   a \in archives }
    /\ (cmd.source = "bad" \/ cmd.dest = "file") => cmd.archive = <<>>
    /\ dirOk = (cmd.dest = "dir")
    /\ fs = <<>> /\ nworkers = 1
    /\ file_paths = <<>> /\ todo = {} /\ busy = {} /\ results = <<>>
    /\ panicked = FALSE /\ profiles = <<>> /\ rm_i = 1
    /\ errors_exist = FALSE /\ stdout = <<>> /\ stderr = <<>> /\ trash = {}
    /\ outcome = Unset
    /\ spc = "start"

InitExtract == InitExtractOf(Archives)

\* extract, up to the loop.
ExtractOpen ==
    /\ spc = "start"
    /\ IF cmd.dest = "file"
       THEN /\ outcome' = NotADirectory
            /\ spc' = "done"
            /\ UNCHANGED dirOk
       ELSE /\ dirOk' = TRUE
            /\ IF cmd.source = "bad"
               THEN outcome' = ErrIo /\ spc' = "done"
               ELSE spc' = "looping" /\ UNCHANGED outcome
    /\ UNCHANGED <<fs, cmd, nworkers, file_paths, todo, busy, results, panicked,
                   profiles, rm_i, errors_exist, stdout, stderr, trash, bufVars, legacyVars>>

\* extract: one turn of the loop.
ExtractEntry ==
    /\ spc = "looping"
    /\ rm_i <= Len(cmd.archive)
    /\ LET r == extract_entry(cmd.archive[rm_i])
       IN  CASE r.kind = "Skip" ->
                   /\ rm_i' = rm_i + 1
                   /\ UNCHANGED <<fs, outcome, spc, panicked>>
             [] r.kind = "Write" ->
                   /\ fs' = [ n \in DOMAIN fs \cup {r.path} |->
                                IF n = r.path THEN r.bytes ELSE fs[n] ]
                   /\ rm_i' = rm_i + 1
                   /\ UNCHANGED <<outcome, spc, panicked>>
             [] r.kind = "Panic" ->
                   /\ outcome' = Panic
                   /\ panicked' = TRUE
                   /\ spc' = "done"
                   /\ UNCHANGED <<fs, rm_i>>
             [] r.kind = "Err" ->
                   /\ outcome' = r
                   /\ spc' = "done"
                   /\ UNCHANGED <<fs, rm_i, panicked>>
    /\ UNCHANGED <<dirOk, cmd, nworkers, file_paths, todo, busy, results,
                   profiles, errors_exist, stdout, stderr, trash, bufVars, legacyVars>>

\* extract: after the loop.
ExtractReturn ==
    /\ spc = "looping"
    /\ rm_i > Len(cmd.archive)
    /\ outcome' = Ok(<<>>)
    /\ spc' = "done"
    /\ UNCHANGED <<fs, dirOk, cmd, nworkers, file_paths, todo, busy, results,
                   panicked, profiles, rm_i, errors_exist, stdout, stderr,
                   trash, bufVars, legacyVars>>

NextExtract == ExtractOpen \/ ExtractEntry \/ ExtractReturn

SpecExtract == InitExtract /\ [][NextExtract]_vars
\* The entry is a candidate: its name ends in the profile extension.
IsCandidate(e) ==
    /\ e.name # None
    /\ e.name.v[Len(e.name.v)] = "mobileprovision"

\* The document of the entry holds the five fields.
EntryDecodes(e) == Complete(FileDoc(e.kind))

CandidatesBefore(i) ==
    { j \in 1 .. i - 1 : j <= Len(cmd.archive) /\ IsCandidate(cmd.archive[j]) }

\* The name under which the entry is to be written.
OutName(e) == PathIn(Destination, <<FileDoc(e.kind).vals.uuid, "mobileprovision">>)

\* extract has its destination directory and has opened the archive.
ExtractLooped == cmd.dest # "file" /\ cmd.source = "zip" /\ spc \in {"looping", "done"}

Failing == { j \in DOMAIN cmd.archive :
               IsCandidate(cmd.archive[j]) /\ ~EntryDecodes(cmd.archive[j]) }

\* C16: when a candidate entry fails to decode, extract returns an error
\* that names the entry, takes no later entry and writes no file for the
\* failing one: the files are those of the candidates before it.
C16_ExtractFailsOnUndecodable ==
    (ExtractLooped /\ Failing # {} /\ spc = "done") =>
        /\ outcome = FailedToDecode(cmd.archive[SetMin(Failing)].name.v)
        /\ rm_i = SetMin(Failing)
        /\ DOMAIN fs = { OutName(cmd.archive[j]) : j \in CandidatesBefore(SetMin(Failing)) }
\* The command filters by expiry alone, and its cutoff.
ExpiryScan ==
    \/ cmd.op = "Clean"
    \/ cmd.op = "List" /\ cmd.expire_in_days # None /\ cmd.text = None

Cutoff ==
    IF cmd.op = "Clean" THEN cmd.now
    ELSE cmd.now + cmd.expire_in_days.v * 86400

\* C17: expiry filtering with cutoff T (clean: T = now; list
\* --expire-in-days d: T = now + d days) keeps exactly the decodable
\* profiles with expiration_date <= T: those that expire at T - 1 or at T,
\* not those that expire at T + 1.
C17_ExpiryCutoff ==
    (FilterReturned /\ ExpiryScan) =>
        /\ outcome # Panic
        /\ Range(profiles) =
              { TrueProfile(n) : n \in { m \in Candidates :
                  /\ Decodable(m)
                  /\ FileDoc(fs[m].kind).vals.expiration_date <= Cutoff } }

(***************************************************************************)
(* show on one file.                                                       *)
(***************************************************************************)
MaxShowChunks == 3

ShowChunks == { PLIST_PREFIX, PLIST_SUFFIX, <<"a">>, <<InvalidUtf8Byte>> }

RECURSIVE Concat(_)
Concat(q) == IF q = <<>> THEN <<>> ELSE q[1] \o Concat(Tail(q))

\* What the file can hold.
ShowBuffers ==
    { Concat(q) : q \in UNION { [1 .. k -> ShowChunks] : k \in 0 .. MaxShowChunks } }

ShowPath == PathIn(ScanDir, <<"1", "mobileprovision">>)

\* The file holds the bytes of data, or cannot be opened or read.
InitShow ==
    /\ ScanIdle
    /\ LegacyIdle
    /\ data \in ShowBuffers
    /\ input \in { [path |-> ShowPath, readable |-> b] : b \in BOOLEAN }
    /\ ~input.readable => data = <<>>
    /\ reads = 0 /\ found = Unset /\ decoded = Unset
    /\ pc = "call"

ShowCall ==
    /\ pc = "call"
    /\ decoded' = show_buf(IF input.readable THEN Ok(data) ELSE ErrIo, input.path)
    /\ pc' = "returned"
    /\ UNCHANGED <<data, reads, found, input, scanVars, legacyVars>>

NextShow == ShowCall

SpecShow == InitShow /\ [][NextShow]_vars

\* C18: show(file_path) returns an error value for every failure and never
\* a partial result: an I/O error when the file cannot be opened or read, a
\* `Couldn't parse` error that names the path when the locator finds no
\* payload, an error when the payload is not valid UTF-8; on success it
\* returns exactly the located payload.
C18_ShowSurfacesFailures ==
    pc = "returned" =>
        /\ decoded.kind \in {"Ok", "Err"}
        /\ ~input.readable => decoded = ErrIo
        /\ (input.readable /\ (MarkerAbsent \/ ComputedEnd > Len(data))) =>
               decoded = ErrOwn(<<"Couldn't parse", input.path>>)
        /\ decoded.kind = "Ok" =>
               /\ decoded.v = Payload
               /\ \A i \in DOMAIN decoded.v : decoded.v[i] # InvalidUtf8Byte

(***************************************************************************)
(* Documents with the key names in other places.                           *)
(***************************************************************************)
\* What a document holds besides its five fields: the key UUID inside the
\* Entitlements dictionary ("nested"), a dictionary under another key that
\* holds Name and application-identifier ("dict"), application-identifier
\* as a top-level key ("toplevel"), and a string value that reads UUID
\* under another key ("value").
Decoys == {"nested", "dict", "toplevel", "value"}

\* The members added to the top-level dictionary.
TopDecoys(ds) ==
    (IF "value" \in ds THEN <<KeyEl("Other"), StringEl("UUID")>> ELSE <<>>)
    \o (IF "dict" \in ds
        THEN <<KeyEl("Other"), DictOpen, KeyEl("Name"), StringEl("Dev"),
               KeyEl("application-identifier"), StringEl("T.*"), DictClose>>
        ELSE <<>>)
    \o (IF "toplevel" \in ds
        THEN <<KeyEl("application-identifier"), StringEl("T.*")>>
        ELSE <<>>)

\* The member added to the Entitlements dictionary.
NestedDecoy(ds) ==
    IF "nested" \in ds THEN <<KeyEl("UUID"), StringEl("u2")>> ELSE <<>>

\* The document: the five fields of vals, with the added members before or
\* after them.
KeyPathBody(kp) ==
    (IF kp.first THEN TopDecoys(kp.decoys) ELSE <<>>)
    \o <<KeyEl("UUID"), StringEl(kp.vals.uuid), KeyEl("Name"), StringEl(kp.vals.name),
         KeyEl("Entitlements"), DictOpen>>
    \o (IF kp.first THEN NestedDecoy(kp.decoys) ELSE <<>>)
    \o <<KeyEl("application-identifier"), StringEl(kp.vals.app_identifier)>>
    \o (IF kp.first THEN <<>> ELSE NestedDecoy(kp.decoys))
    \o <<DictClose, KeyEl("CreationDate"), DateEl(kp.vals.creation_date),
         KeyEl("ExpirationDate"), DateEl(kp.vals.expiration_date)>>
    \o (IF kp.first THEN <<>> ELSE TopDecoys(kp.decoys))

RenderKeyPath(kp) ==
    kp.pre \o PLIST_PREFIX \o <<XmlHeader, DictOpen>> \o KeyPathBody(kp)
    \o <<DictClose>> \o PLIST_SUFFIX \o kp.post

\* The name of the profile is an ordinary string or reads like a key.
KeyPathInputs ==
    { [pre |-> pre, post |-> post, decoys |-> ds, first |-> b,
       vals |-> Info("u1", n, "T.app", 1, 2)] :
        pre \in Garbage, post \in Garbage, ds \in SUBSET Decoys,
        b \in BOOLEAN, n \in {"n1", "UUID"} }

InitKeyPath ==
    /\ ScanIdle
    /\ LegacyIdle
    /\ input \in KeyPathInputs
    /\ data = RenderKeyPath(input)
    /\ reads = 1
    /\ pc = "reading"
    /\ found = Unset
    /\ decoded = Unset

SpecKeyPath == InitKeyPath /\ [][NextDecode]_vars

\* C19: the decoders read the fields by key path: UUID, Name, CreationDate
\* and ExpirationDate at the top level and application-identifier inside
\* Entitlements; a key of one of these names at another level, or a string
\* value that reads like one of them, does not change the decoded record.
C19_KeyPath ==
    pc = "decoded" =>
        \A f \in {"Info_from_xml_data", "ProfileInfo_from_xml_data"} :
            decoded[f] = Some(input.vals)

\* C20: a buffer that ends exactly with the end marker (computed end
\* offset equal to the buffer length) is located: every locator
\* (plist_extractor::find, Context::find_plist and the legacy find_plist)
\* returns the payload from the first start marker to the end of the
\* buffer, not none.
C20_EndsWithEndMarker ==
    (pc = "located" /\ ~MarkerAbsent /\ ComputedEnd = Len(data)) =>
        \A l \in Locators :
            found[l] = [kind |-> "Some", start |-> SetMin(StartOffsets),
                        end |-> Len(data)]

(***************************************************************************)
(* Calls of Info::contains.                                                *)
(***************************************************************************)
TextStrings == { Str(cs) : cs \in TextSeqs }

ContainsInfos ==
    { Info(u, n, a, 1, 2) : u \in {"a", "bA"}, n \in TextStrings, a \in {"b", "Ab"} }

InitContains ==
    /\ ScanIdle
    /\ LegacyIdle
    /\ data = <<>> /\ reads = 0 /\ found = Unset /\ decoded = Unset
    /\ pc = "call"
    /\ input \in { [op |-> "contains", info |-> i, string |-> t] :
                     i \in ContainsInfos, t \in TextStrings }

CallContains ==
    /\ pc = "call" /\ input.op = "contains"
    /\ decoded' = contains(input.info, input.string)
    /\ pc' = "returned"
    /\ UNCHANGED <<data, reads, found, input, scanVars, legacyVars>>

NextContains == CallContains

SpecContains == InitContains /\ [][NextContains]_vars

\* The characters of a text, each in lower case.
LowerText(t) ==
    LET cs == CHOOSE q \in TextSeqs : Str(q) = t
    IN  [ i \in DOMAIN cs |-> IF cs[i] = "A" THEN "a" ELSE cs[i] ]

\* The lower-case form of s is a substring of the lower-case form of t.
LowerSubstring(s, t) ==
    \E off \in 0 .. Len(LowerText(t)) - Len(LowerText(s)) :
        \A k \in 1 .. Len(LowerText(s)) : LowerText(t)[off + k] = LowerText(s)[k]

\* C21: contains(s) is true exactly when the lower-case form of s is a
\* substring of the lower-case form of the name, of the app_identifier or
\* of the uuid.
C21_Contains ==
    (pc = "returned" /\ input.op = "contains") =>
        decoded = \/ LowerSubstring(input.string, input.info.name)
                  \/ LowerSubstring(input.string, input.info.app_identifier)
                  \/ LowerSubstring(input.string, input.info.uuid)

\* C21 witness: a text of two letters found in the uuid alone, and there
\* only without regard to case.
C21_Witness ==
    /\ pc = "returned" /\ input.op = "contains" /\ decoded
    /\ input.string = "ba"
    /\ input.info.uuid = "bA"
    /\ ~LowerSubstring(input.string, input.info.name)
    /\ ~LowerSubstring(input.string, input.info.app_identifier)
\* C22: list prints the kept profiles in non-decreasing order of
\* creation_date, whatever the order in which the scan produced them; it
\* sorts the collected result after the scan: nothing is printed while the
\* scan runs, and what is printed are the collected profiles.
C22_ListSorted ==
    cmd.op = "List" =>
        /\ \A i, j \in DOMAIN stdout :
              i < j => stdout[i].info.creation_date <= stdout[j].info.creation_date
        /\ spc \in {"start", "scanning"} => stdout = <<>>
        /\ (spc = "done" /\ dirOk /\ ~panicked) =>
              /\ Len(stdout) = Len(Collected(results, 1))
              /\ Range(stdout) = Range(Collected(results, 1))

\* C22 witness: a listing of two profiles that the scan collected in
\* decreasing order of creation_date.
C22_Witness ==
    /\ cmd.op = "List" /\ spc = "done"
    /\ Len(stdout) = 2
    /\ Collected(results, 1)[1].info.creation_date
          > Collected(results, 1)[2].info.creation_date

(***************************************************************************)
(* parse_days: the value parser of --expire-in-days.                       *)
(***************************************************************************)
MaxDayChunks == 3

Digits == {"0", "1", "2", "3", "4", "5", "6", "7", "8", "9"}

DigitVal(c) ==
    CASE c = "0" -> 0 [] c = "1" -> 1 [] c = "2" -> 2 [] c = "3" -> 3
      [] c = "4" -> 4 [] c = "5" -> 5 [] c = "6" -> 6 [] c = "7" -> 7
      [] c = "8" -> 8 [] c = "9" -> 9

\* The digits of i64::MAX, and of the magnitude of i64::MIN.
I64MaxDigits ==
    <<"9", "2", "2", "3", "3", "7", "2", "0", "3", "6", "8", "5", "4", "7", "7",
      "5", "8", "0", "7">>

I64MinDigits ==
    <<"9", "2", "2", "3", "3", "7", "2", "0", "3", "6", "8", "5", "4", "7", "7",
      "5", "8", "0", "8">>

\* The pieces of an argument: signs, digits, a letter, and the first
\* eighteen digits of i64::MAX.
DayChunks ==
    { <<"-">>, <<"+">>, <<"0">>, <<"3">>, <<"3", "6">>, <<"5">>, <<"6">>,
      <<"7">>, <<"8">>, <<"a">>, SubSeq(I64MaxDigits, 1, 18) }

DayArgs ==
    { Concat(q) : q \in UNION { [1 .. k -> DayChunks] : k \in 0 .. MaxDayChunks } }

\* An integer of any size: its sign and its digits without leading zeros.
RECURSIVE NumLeq(_, _)
NumLeq(a, b) ==
    IF Len(a) # Len(b) THEN Len(a) < Len(b)
    ELSE IF a = <<>> THEN TRUE
    ELSE IF a[1] # b[1] THEN DigitVal(a[1]) < DigitVal(b[1])
    ELSE NumLeq(Tail(a), Tail(b))

RECURSIVE Num(_)
Num(ds) == IF ds = <<>> THEN 0 ELSE 10 * Num(SubSeq(ds, 1, Len(ds) - 1)) + DigitVal(ds[Len(ds)])

ParseIntError(kind) == [kind |-> "Err", err |-> "ParseIntError", msg |-> kind]

\* i64::from_str: the loop over the characters after the sign, with
\* checked_mul and checked_add (checked_sub for a negative number).
RECURSIVE from_str_digits(_, _, _, _)
from_str_digits(cs, i, neg, acc) ==
    IF i > Len(cs) THEN Ok([neg |-> neg /\ acc # <<>>, digits |-> acc])
    ELSE IF cs[i] \notin Digits THEN ParseIntError("invalid digit found in string")
    ELSE LET next == IF acc = <<>> /\ cs[i] = "0" THEN <<>> ELSE Append(acc, cs[i])
         IN  IF ~NumLeq(next, IF neg THEN I64MinDigits ELSE I64MaxDigits)
             THEN ParseIntError(IF neg THEN "number too small to fit in target type"
                                ELSE "number too large to fit in target type")
             ELSE from_str_digits(cs, i + 1, neg, next)

i64_from_str(cs) ==
    IF cs = <<>> THEN ParseIntError("cannot parse integer from empty string")
    ELSE IF cs \in {<<"+">>, <<"-">>} THEN ParseIntError("invalid digit found in string")
    ELSE IF cs[1] = "-" THEN from_str_digits(cs, 2, TRUE, <<>>)
    ELSE IF cs[1] = "+" THEN from_str_digits(cs, 2, FALSE, <<>>)
    ELSE from_str_digits(cs, 1, FALSE, <<>>)

\* (0..=365).contains(&days)
DaysInRange(d) == ~d.neg /\ NumLeq(d.digits, <<"3", "6", "5">>)

OutOfRange(d) == [kind |-> "Err", err |-> "Message", msg |-> <<"should be between 0 and 365, got", d>>]

\* parse_days with the range 0..365, which leaves 365 out.
parse_days_HalfOpen(cs) ==
    LET days == i64_from_str(cs)
    IN  IF days.kind = "Err" THEN days
        ELSE IF ~(DaysInRange(days.v) /\ days.v.digits # <<"3", "6", "5">>)
             THEN OutOfRange(days.v)
        ELSE Ok(Num(days.v.digits))

parse_days(cs) ==
    LET days == i64_from_str(cs)
    IN  IF days.kind = "Err" THEN days
        ELSE IF ~DaysInRange(days.v) THEN OutOfRange(days.v)
        ELSE Ok(Num(days.v.digits))

InitDays ==
    /\ ScanIdle
    /\ LegacyIdle
    /\ data = <<>> /\ reads = 0 /\ found = Unset /\ decoded = Unset
    /\ pc = "call"
    /\ input \in { [op |-> "parse_days", s |-> cs] : cs \in DayArgs }

CallParseDays ==
    /\ pc = "call" /\ input.op = "parse_days"
    /\ decoded' = parse_days(input.s)
    /\ pc' = "returned"
    /\ UNCHANGED <<data, reads, found, input, scanVars, legacyVars>>

NextDays == CallParseDays

SpecDays == InitDays /\ [][NextDays]_vars

\* The text of an integer: an optional sign, then one or more digits.
Unsigned(cs) == IF cs # <<>> /\ cs[1] \in {"+", "-"} THEN Tail(cs) ELSE cs

IsIntegerText(cs) ==
    /\ Unsigned(cs) # <<>>
    /\ \A i \in DOMAIN Unsigned(cs) : Unsigned(cs)[i] \in Digits

RECURSIVE StripZeros(_)
StripZeros(ds) == IF ds # <<>> /\ ds[1] = "0" THEN StripZeros(Tail(ds)) ELSE ds

\* The integer written by cs lies in 0 .. 365.
DenotesDay(cs) ==
    /\ IsIntegerText(cs)
    /\ LET m == StripZeros(Unsigned(cs))
       IN  /\ Len(m) <= 3
           /\ Num(m) <= 365
           /\ cs[1] = "-" => m = <<>>

\* C23: parse_days accepts exactly the strings that write an integer d with
\* 0 <= d <= 365, and returns that d; negative numbers, numbers above 365
\* and strings that are not integers are rejected.
C23_ParseDays ==
    (pc = "returned" /\ input.op = "parse_days") =>
        /\ decoded.kind = "Ok" <=> DenotesDay(input.s)
        /\ decoded.kind = "Ok" =>
              /\ decoded.v \in 0 .. 365
              /\ decoded.v = Num(StripZeros(Unsigned(input.s)))

\* C23 witness: the upper end of the range, 365, was parsed and accepted.
C23_Witness ==
    /\ pc = "returned" /\ input.op = "parse_days"
    /\ input.s = <<"3", "6", "5">>
    /\ decoded = Ok(365)

(***************************************************************************)
(* The work-stealing executor of src/src/lib.rs: execute, JobIter, and the *)
(* pipeline profiles -> valid_profiles -> search built on it.              *)
(***************************************************************************)
MaxJobs == 2

JobName(i) == <<ToString(i), EXT_MOBILEPROVISION>>

\* The directories the pipeline is run on: up to MaxJobs profile files, and
\* a profile under a name without the extension.
ExecFilesystems ==
    { [ n \in DOMAIN g \cup {<<"notes", "txt">>} |->
            IF n \in DOMAIN g THEN g[n] ELSE File("u1", TRUE) ] :
        g \in UNION { [ { JobName(i) : i \in 1 .. k }
                          -> { File(kind, TRUE) : kind \in FileKinds } ] : k \in 0 .. MaxJobs } }

\* files(path): the entries of read_dir with the extension, in its order.
RECURSIVE files(_, _, _)
files(fsys, dir, i) ==
    IF i > MaxJobs THEN <<>>
    ELSE IF JobName(i) \in DOMAIN fsys /\ extension(JobName(i)) = Some(EXT_MOBILEPROVISION)
         THEN <<PathIn(dir, JobName(i))>> \o files(fsys, dir, i + 1)
    ELSE files(fsys, dir, i + 1)

\* profile_from_data on each buffer a file can hold.
LegacyInfoOf == [ d \in FileBuffers |-> profile_from_data(d) ]

\* profile_from_file of src/src/lib.rs; ReadProfileJob::execute calls it.
profile_from_file(fsys, file_path) ==
    LET buf == read_file(fsys, file_path)
    IN  IF buf.kind = "Err" THEN buf
        ELSE LET p == LegacyInfoOf[buf.v]
             IN  IF p.kind = "Panic" THEN Panic
                 ELSE IF p.kind = "None" THEN ErrOwn("Couldn't parse file.")
                 ELSE Ok([path |-> file_path, info |-> p.v])

\* enum Event<T>
Data(thread_id, out) == [ev |-> "Data", thread |-> thread_id, data |-> out]

FinishEvent(thread_id) == [ev |-> "Finish", thread |-> thread_id]

At(pos) == [pc |-> pos, t |-> 0, job |-> None]

\* Vec::swap_remove(i): the last element takes the place of the i-th.
swap_remove(v, i) ==
    [ j \in 1 .. Len(v) - 1 |-> IF j = i THEN v[Len(v)] ELSE v[j] ]

\* The index of the first handle with this thread id, if any.
handle_index(hs, thread_index) ==
    LET found_at == { i \in DOMAIN hs : hs[i] = thread_index }
    IN  IF found_at = {} THEN None ELSE Some(SetMin(found_at))

\* execute has returned: the jobs are on the deque, the threads are spawned,
\* each with its clone of tx, and the tx of execute itself is dropped.
InitExec ==
    /\ BufIdle /\ PoolIdle
    /\ fs \in ExecFilesystems
    /\ nworkers \in 1 .. MaxWorkers
    /\ dirOk = TRUE /\ cmd = Unset
    /\ file_paths = <<>> /\ todo = {} /\ busy = {} /\ results = <<>>
    /\ panicked = FALSE /\ profiles = <<>> /\ spc = "idle" /\ rm_i = 1
    /\ errors_exist = FALSE /\ stdout = <<>> /\ stderr = <<>> /\ trash = {}
    /\ outcome = Unset
    /\ deque = [jobs |-> files(fs, ScanDir, 1), top |-> 0]
    /\ threads = [ id \in 0 .. nworkers - 1 |-> At("steal") ]
    /\ senders = 0 .. nworkers - 1
    /\ receiver = <<>>
    /\ handles = [ i \in 1 .. nworkers |-> i - 1 ]
    /\ executed = <<>>
    /\ yielded = <<>>
    /\ jpc = [at |-> "recv"]

\* stealer.steal(), first half: load top and bottom; Steal::Empty => break.
StealLoad(id) ==
    /\ threads[id].pc = "steal"
    /\ IF deque.top >= Len(deque.jobs)
       THEN threads' = [threads EXCEPT ![id] = At("finish")]
       ELSE threads' = [threads EXCEPT ![id] = [pc |-> "cas", t |-> deque.top, job |-> None]]
    /\ UNCHANGED <<deque, senders, receiver, handles, executed, yielded, jpc,
                   bufVars, scanVars, poolVars>>

\* stealer.steal(), second half: the compare-and-swap on top.  It gives
\* Steal::Data(job), or Steal::Abort when another stealer moved top.
StealCas(id) ==
    /\ threads[id].pc = "cas"
    /\ IF deque.top = threads[id].t
       THEN /\ deque' = [deque EXCEPT !.top = @ + 1]
            /\ threads' = [threads EXCEPT ![id] =
                    [pc |-> "execute", t |-> 0, job |-> Some(deque.jobs[deque.top + 1])]]
       ELSE /\ threads' = [threads EXCEPT ![id] = At("steal")]
            /\ UNCHANGED deque
    /\ UNCHANGED <<senders, receiver, handles, executed, yielded, jpc,
                   bufVars, scanVars, poolVars>>

\* tx.send(Event::Data(thread_id, job.execute())); a panic of the job
\* unwinds the thread, which drops its tx.
Execute(id) ==
    /\ threads[id].pc = "execute"
    /\ LET job == threads[id].job.v
           out == profile_from_file(fs, job)
       IN  /\ executed' = Append(executed, job)
           /\ IF out.kind = "Panic"
              THEN /\ threads' = [threads EXCEPT ![id] = At("panicked")]
                   /\ senders' = senders \ {id}
                   /\ UNCHANGED receiver
              ELSE /\ threads' = [threads EXCEPT ![id] = At("steal")]
                   /\ receiver' = Append(receiver, Data(id, out))
                   /\ UNCHANGED senders
    /\ UNCHANGED <<deque, handles, yielded, jpc,
                   bufVars, scanVars, poolVars>>

\* tx.send(Event::Finish(thread_id))
SendFinish(id) ==
    /\ threads[id].pc = "finish"
    /\ receiver' = Append(receiver, FinishEvent(id))
    /\ threads' = [threads EXCEPT ![id] = At("exit")]
    /\ UNCHANGED <<deque, senders, handles, executed, yielded, jpc,
                   bufVars, scanVars, poolVars>>

\* The closure returns: its tx is dropped and the thread can be joined.
Exit(id) ==
    /\ threads[id].pc = "exit"
    /\ threads' = [threads EXCEPT ![id] = At("exited")]
    /\ senders' = senders \ {id}
    /\ UNCHANGED <<deque, receiver, handles, executed, yielded, jpc,
                   bufVars, scanVars, poolVars>>

ThreadStep(id) ==
    \/ StealLoad(id) \/ StealCas(id) \/ Execute(id) \/ SendFinish(id) \/ Exit(id)

\* JobIter::next, receiver.recv() = Ok(Event::Data(_, data)): return Some(data).
RecvData ==
    /\ jpc.at = "recv"
    /\ receiver # <<>> /\ Head(receiver).ev = "Data"
    /\ yielded' = Append(yielded, Head(receiver).data)
    /\ receiver' = Tail(receiver)
    /\ UNCHANGED <<deque, threads, senders, handles, executed, jpc,
                   bufVars, scanVars, poolVars>>

\* JobIter::next, Ok(Event::Finish(thread_index)): take the handle out of
\* handles and go on to join it.
RecvFinish ==
    /\ jpc.at = "recv"
    /\ receiver # <<>> /\ Head(receiver).ev = "Finish"
    /\ LET index == handle_index(handles, Head(receiver).thread)
       IN  IF IsSome(index)
           THEN /\ handles' = swap_remove(handles, index.v)
                /\ jpc' = [at |-> "join", thread |-> Head(receiver).thread]
           ELSE UNCHANGED <<handles, jpc>>
    /\ receiver' = Tail(receiver)
    /\ UNCHANGED <<deque, threads, senders, executed, yielded,
                   bufVars, scanVars, poolVars>>

\* handle.1.join() returns once the thread is over.
Join ==
    /\ jpc.at = "join"
    /\ threads[jpc.thread].pc \in {"exited", "panicked"}
    /\ jpc' = [at |-> "recv"]
    /\ UNCHANGED <<deque, threads, senders, receiver, handles, executed, yielded,
                   bufVars, scanVars, poolVars>>

\* receiver.recv() = Err(_): the channel is empty and every tx is dropped;
\* JobIter::next leaves its loop and returns None.
RecvDisconnected ==
    /\ jpc.at = "recv"
    /\ receiver = <<>> /\ senders = {}
    /\ jpc' = [at |-> "done"]
    /\ UNCHANGED <<deque, threads, senders, receiver, handles, executed, yielded,
                   bufVars, scanVars, poolVars>>

JobIter_next == RecvData \/ RecvFinish \/ Join \/ RecvDisconnected

NextExec ==
    \/ \E id \in DOMAIN threads : StealLoad(id)
    \/ \E id \in DOMAIN threads : StealCas(id)
    \/ \E id \in DOMAIN threads : Execute(id)
    \/ \E id \in DOMAIN threads : SendFinish(id)
    \/ \E id \in DOMAIN threads : Exit(id)
    \/ RecvData
    \/ RecvFinish
    \/ Join
    \/ RecvDisconnected

SpecExec == InitExec /\ [][NextExec]_vars

\* The same, with every thread and the consumer scheduled fairly.
SpecExecFair ==
    /\ InitExec
    /\ [][NextExec]_vars
    /\ \A id \in 0 .. MaxWorkers - 1 : WF_vars(id \in DOMAIN threads /\ ThreadStep(id))
    /\ WF_vars(JobIter_next)

\* What each job on the deque returns; a job has no output when it panics.
JobOutputs == [ i \in DOMAIN deque.jobs |-> profile_from_file(fs, deque.jobs[i]) ]

Count(q, v) == Cardinality({ i \in DOMAIN q : q[i] = v })

\* C24: each job pushed on the deque is executed exactly once and its result
\* is yielded by the iterator exactly once, for every number of threads and
\* every interleaving of the steals: no job is executed twice, and when the
\* iterator is exhausted every job was executed and the yielded results are,
\* as a multiset, the outputs of the jobs.
C24_ExactlyOnce ==
    /\ \A j \in Range(executed) : Count(executed, j) = 1
    /\ jpc.at = "done" =>
          /\ Range(executed) = Range(deque.jobs)
          /\ \A v \in (Range(JobOutputs) \cup Range(yielded)) \ {Panic} :
                Count(yielded, v) = Count(JobOutputs, v)

\* C25: JobIter::next returns None in the end, after it yielded one item per
\* job, and by then every thread has sent Finish, has been joined, and its
\* handle is out of `handles`.
C25_Terminates ==
    /\ <>(jpc.at = "done")
    /\ [](jpc.at = "done" =>
            /\ Len(yielded) = Len(deque.jobs)
            /\ handles = <<>>
            /\ \A id \in DOMAIN threads : threads[id].pc = "exited")

\* valid_profiles and the filter of search over what the iterator yielded:
\* the paths of the profiles kept.
search_paths(ys, s) ==
    { ys[i].v.path : i \in { k \in DOMAIN ys : ys[k].kind = "Ok" /\ contains(ys[k].v.info, s) } }

\* filter of the current library with the same predicate: the paths kept,
\* or the panic of a closure.
filter_paths(fsys, paths, s) ==
    LET c == [op |-> "List", text |-> Some(s), expire_in_days |-> None, now |-> 0]
        res == [ i \in DOMAIN paths |-> filter_item(fsys, c, paths[i]) ]
    IN  IF \E i \in DOMAIN res : res[i].kind = "Panic" THEN Panic
        ELSE Ok({ res[i].v.path : i \in { k \in DOMAIN res : res[k].kind = "Some" } })

SearchTexts == {"", "dev", "u2"}

\* C26: over the same paths and with the same predicate, the work-stealing
\* pipeline keeps the same set of paths as the filter of the current
\* library, whatever the files hold.
C26_SamePaths ==
    jpc.at = "done" =>
        \A s \in SearchTexts :
            filter_paths(fs, deque.jobs, s) = Ok(search_paths(yielded, s))

(***************************************************************************)
(* BuffersPool of src/src/context.rs, used by concurrent workers.          *)
(***************************************************************************)
MaxBufLen == 2

PoolWorkers == 1 .. MaxWorkers

\* Vec::new(): no bytes and no capacity; `id` names the allocation.
Vec_new(id) == [id |-> id, bytes |-> <<>>, cap |-> 0]

\* Vec::clear(): the length becomes 0, the capacity stays.
clear(vec) == [vec EXCEPT !.bytes = <<>>]

\* Vec::push(b): the capacity grows when it is used up.
push(vec, b) ==
    [vec EXCEPT !.bytes = Append(@, b),
                !.cap = IF Len(vec.bytes) + 1 > @
                        THEN (IF 2 * @ > 8 THEN 2 * @ ELSE 8)
                        ELSE @]

\* acquire without vec.clear(): the Vec comes back as it was released.
acquire_NoClear(q, n) ==
    IF q # <<>>
    THEN [vec |-> Head(q), queue |-> Tail(q), allocated |-> n]
    ELSE [vec |-> Vec_new(n + 1), queue |-> q, allocated |-> n + 1]

\* BuffersPool::acquire: queue.try_pop(), then clear, or a new Vec.
acquire(q, n) ==
    IF q # <<>>
    THEN [vec |-> clear(Head(q)), queue |-> Tail(q), allocated |-> n]
    ELSE [vec |-> Vec_new(n + 1), queue |-> q, allocated |-> n + 1]

\* BuffersPool::release: queue.push(vec)
release(q, vec) == Append(q, vec)

\* BuffersPool::default()
InitPool ==
    /\ BufIdle /\ ScanIdle /\ ExecIdle
    /\ queue = <<>>
    /\ held = [ w \in PoolWorkers |-> None ]
    /\ allocated = 0

Acquire(w) ==
    /\ held[w] = None
    /\ LET a == acquire(queue, allocated)
       IN  /\ held' = [held EXCEPT ![w] = Some(a.vec)]
           /\ queue' = a.queue
           /\ allocated' = a.allocated
    /\ UNCHANGED <<bufVars, scanVars, execVars>>

\* The worker fills the buffer it owns.
Push(w) ==
    /\ held[w] # None
    /\ Len(held[w].v.bytes) < MaxBufLen
    /\ \E b \in {1, 2} : held' = [held EXCEPT ![w] = Some(push(held[w].v, b))]
    /\ UNCHANGED <<queue, allocated, bufVars, scanVars, execVars>>

Release(w) ==
    /\ held[w] # None
    /\ queue' = release(queue, held[w].v)
    /\ held' = [held EXCEPT ![w] = None]
    /\ UNCHANGED <<allocated, bufVars, scanVars, execVars>>

NextPool ==
    \/ \E w \in PoolWorkers : Acquire(w)
    \/ \E w \in PoolWorkers : Push(w)
    \/ \E w \in PoolWorkers : Release(w)

SpecPool == InitPool /\ [][NextPool]_vars

\* The allocations a worker owns, and those waiting in the pool.
HeldIds(w) == IF held[w] = None THEN {} ELSE {held[w].v.id}

QueuedIds == { queue[i].id : i \in DOMAIN queue }

\* C27: in every interleaving of acquire and release, each buffer that
\* acquire returns has length 0, and no buffer is owned by two workers at
\* once or owned while it waits in the pool: a released buffer goes to at
\* most one later acquire.
C27_BuffersPool ==
    /\ [][\A w \in PoolWorkers :
            (held[w] = None /\ held'[w] # None) => held'[w].v.bytes = <<>>]_vars
    /\ [](/\ \A w1, w2 \in PoolWorkers : w1 # w2 => HeldIds(w1) \cap HeldIds(w2) = {}
          /\ \A w \in PoolWorkers : HeldIds(w) \cap QueuedIds = {}
          /\ \A i, j \in DOMAIN queue : queue[i].id = queue[j].id => i = j)

\* C27 witness: a worker owns an empty buffer that kept the capacity of an
\* earlier use, while another worker owns a buffer with bytes in it.
C27_Witness ==
    \E w1, w2 \in PoolWorkers :
        /\ w1 # w2
        /\ held[w1] # None /\ held[w1].v.bytes = <<>> /\ held[w1].v.cap > 0
        /\ held[w2] # None /\ held[w2].v.bytes # <<>>

\* remove_profiles: the turns of the loop taken so far, and those whose file
\* could be deleted.
Attempted == 1 .. rm_i - 1

Deletable(i) == fs[profiles[i].path.name].deletable

RECURSIVE Removed(_)
Removed(i) ==
    IF i = 0 THEN <<>>
    ELSE IF Deletable(i) THEN Append(Removed(i - 1), profiles[i])
    ELSE Removed(i - 1)

Matched ==
    { n \in Candidates :
        IF Decodable(n) THEN Predicate(cmd, TrueProfile(n)) ELSE FALSE }

\* C29: `remove` and `clean` delete nothing outside the matched set: every
\* file deleted or moved to the trash lies directly in the scanned
\* directory, has the extension, was decoded by the scan and satisfied the
\* predicate; files that do not decode and files of another extension stay
\* as they are.
C29_DeletesOnlyMatched ==
    cmd.op \in {"Remove", "Clean"} =>
        /\ \A n \in DOMAIN fs :
              ~fs[n].exists =>
                  /\ n \in Matched
                  /\ \E i \in 1 .. rm_i - 1 :
                        /\ profiles[i].path = PathIn(ScanDir, n)
                        /\ profiles[i].info = FileDoc(fs[n].kind).vals
        /\ trash \subseteq Matched
        /\ \A n \in DOMAIN fs : n \notin Matched => fs[n].exists
        /\ \A i \in DOMAIN profiles : profiles[i].path.dir = ScanDir

\* C29 witness: the command has deleted a matching profile and is done,
\* while a profile that does not match, and a profile under another
\* extension that would match, are still there.
C29_Witness ==
    /\ cmd.op \in {"Remove", "Clean"} /\ spc = "done"
    /\ \E n \in Matched : ~fs[n].exists
    /\ \E n \in Candidates \ Matched : Decodable(n) /\ fs[n].exists
    /\ \E n \in DOMAIN fs \ Candidates :
          /\ fs[n].exists /\ fs[n].kind = "u1"
          /\ Predicate(cmd, [path |-> PathIn(ScanDir, n), info |-> FileDoc("u1").vals])

(***************************************************************************)
(* extract on archives whose profiles carry a path in their UUID.          *)
(***************************************************************************)
PathEntries ==
    { [name |-> Some(<<"1", "mobileprovision">>), kind |-> k] :
        k \in {"u1"} \cup PathKinds }

PathArchives == UNION { [1 .. k -> PathEntries] : k \in 0 .. MaxArchive }

InitExtractPath == InitExtractOf(PathArchives)

SpecExtractPath == InitExtractPath /\ [][NextExtract]_vars

\* C30: every file that extract writes is a direct child of the destination
\* directory, also when the uuid decoded from the entry holds path
\* separators or `..`.
C30_WritesInsideDestination ==
    cmd.op = "extract" => \A path \in DOMAIN fs : path.dir = Destination

====
